---- MODULE Spec2Model ----
(***************************************************************************)
(* A model of the bismuth tiling script: the driver's re-entrancy guard    *)
(* (DriverImpl.connect / enter), the layout registry (LayoutStore and      *)
(* LayoutStoreEntry) and the surface group derivation (DriverSurfaceImpl). *)
(* Each part has its own specification over the shared variables; the      *)
(* parts a specification does not exercise stay at their initial values.   *)
(***************************************************************************)
EXTENDS Integers, Sequences, FiniteSets, TLC

VARIABLES
  \* ---- DriverImpl (re-entrancy guard) ----
  entered,        \* DriverImpl.entered
  callStack,      \* ids of the notifications whose handler body is on the JS call stack
  status,         \* per notification id: "none", "running", "done", "threw", "dropped"
  nested,         \* per notification id: was a handler body running when it fired
  nextId,         \* id of the next notification
  propagated,     \* number of exceptions that escaped enter() to the host
  \* ---- LayoutStore ----
  config,         \* Config: layoutOrder, layoutPerDesktop, layoutPerActivity, ignoreScreen
  layoutState,    \* proxy.getLayoutState: per key, the persisted classID ("" if none)
  store,          \* LayoutStore.store: key -> LayoutStoreEntry or NoEntry
  created,        \* per key and class id: number of createLayoutFromId calls
  lastCall,       \* the last LayoutStore call: op, surface, argument, result
  prevCall,       \* the LayoutStore call before the last one
  \* ---- DriverSurfaceImpl ----
  surfaceGroup,   \* proxy.get/setSurfaceGroup: (desktop, screen) -> group, 0 if none
  surfaces,       \* the DriverSurfaceImpl objects, in order of construction
  lastRead,       \* the last call on a surface object and what it returned
  \* ---- DriverWindowImpl ----
  windows,        \* the DriverWindowImpl objects with their client's desktop
  windowState,    \* proxy.get/putWindowState: per window id, the persisted state
  winCall,        \* the last call on a window or on a surface made for one
  calls,          \* number of calls made on windows and their surfaces
  \* ---- StairLayoutPart / TabbedMasterLayout ----
  stairSpace,     \* StairLayoutPart.space, in pixels
  tabbed,         \* a TabbedMasterLayout: its parts' parameters and its LayoutState
  other,          \* the instance TabbedMasterLayout.clone() returned, NoLayout if none
  partCall,       \* the last call on the part or the layout and what it did
  \* ---- KWin.Client and the driver's bindings to it ----
  client,         \* KWin.Client: move, resize, resizeable, min/max size, frameGeometry
  commitCall,     \* the last commit: its arguments and the frame geometry before it
  \* ---- persisted JSON texts ----
  jsonText,       \* what proxy.getWindowState / getLayoutState hand to JSON.parse
  parseCall,      \* the last operation that parsed one of them and how it ended
  \* ---- DriverImpl: window map and connections ----
  seen,           \* per client: "no", or what shouldIgnore said when it was added
  destroyed,      \* the clients KWin has removed
  windowMap,      \* DriverImpl.windowMap: the clients that have a window in it
  bound,          \* the clients bindWindowEvents was called for
  registeredConnections, \* DriverImpl.registeredConnections: owner and signal
  connected,      \* indices of registeredConnections that are still connected
  ctlCalls,       \* the controller calls of the last step: event and window
  dropCall,       \* the last drop(): disconnects attempted, did it raise
  \* ---- bindWindowEvents: the handlers of one bound window ----
  tracked,        \* the closure's moving and resizing flags
  desired,        \* EngineWindow.geometry: the geometry the engine computed
  moveLog,        \* the last MoveStart/MoveOver and ResizeStart/ResizeOver call made
  signalCall,     \* what the last step was: a signal or the engine's commit
  \* ---- commit(noBorder) ----
  border,         \* client.noBorder, noBorderManaged, noBorderOriginal
  borderCall,     \* the last call that touched the border and what it started from
  \* ---- KWin.workspace.desktops ----
  workspace,      \* the number of virtual desktops; is there a DriverImpl yet
  desktopCall,    \* the last step that set the number of desktops
  \* ---- WrapperMap.add ----
  addCall         \* the last clientAdded for a client KWin had announced before

driverVars == <<entered, callStack, status, nested, nextId, propagated>>
layoutVars == <<config, layoutState, store, created, lastCall, prevCall>>
surfaceVars == <<surfaceGroup, surfaces, lastRead>>
windowVars == <<windows, windowState, winCall, calls>>
partVars == <<stairSpace, tabbed, other, partCall>>
commitVars == <<client, commitCall>>
parseVars == <<jsonText, parseCall>>
managerVars ==
  <<seen, destroyed, windowMap, bound, registeredConnections, connected,
    ctlCalls, dropCall>>
signalVars == <<tracked, desired, moveLog, signalCall>>
borderVars == <<border, borderCall>>
desktopVars == <<workspace, desktopCall>>
kwinVars ==
  <<commitVars, parseVars, managerVars, signalVars, borderVars, desktopVars,
    addCall>>
vars == <<driverVars, layoutVars, surfaceVars, windowVars, partVars, kwinVars>>

\* ------------------------------------------------------------------------
\* Bounds
\* ------------------------------------------------------------------------
MaxEvents == 4       \* notifications delivered in one run
NumDesktops == 2     \* virtual desktops 1..NumDesktops
MaxSurfaces == 2     \* DriverSurfaceImpl objects constructed in one run
MaxCalls == 4        \* calls on a window and the surfaces made for it in one run
MaxTiles == 3        \* windows passed to one StairLayoutPart.apply

\* ========================================================================
\* DriverImpl: connect / enter
\* ========================================================================
Signals == {"clientAdded", "frameGeometryChanged"}
ThrowKinds == {"Error", "string"}
EventIds == 1..MaxEvents

\* enter(): `if (this.entered) return` -- TRUE when the callback is skipped.
EnterGuardOff(flag) == FALSE
EnterGuard(flag) == flag

\* enter(): `catch (e: any)` catches whatever the callback throws.
EnterCatchesNothing(kind) == FALSE
EnterCatches(kind) == TRUE

\* enter(): `finally { this.entered = false }` -- the flag after the callback
\* has ended, normally (threw = FALSE) or by an exception (threw = TRUE).
FlagKeptOnThrow(threw) == threw
FlagAfterCallback(threw) == FALSE

InitDriver ==
  /\ entered = FALSE
  /\ callStack = <<>>
  /\ status = [e \in EventIds |-> "none"]
  /\ nested = [e \in EventIds |-> FALSE]
  /\ nextId = 1
  /\ propagated = 0

\* A bound signal fires: the host emits it while the script is idle, or the
\* running handler's own write to host state emits it synchronously.  The
\* callback registered by connect() calls enter(() => handler(...)).
SignalFires(sig) ==
  /\ nextId <= MaxEvents
  /\ nextId' = nextId + 1
  /\ nested' = [nested EXCEPT ![nextId] = (callStack # <<>>)]
  /\ IF EnterGuard(entered)
       THEN /\ status' = [status EXCEPT ![nextId] = "dropped"]
            /\ UNCHANGED <<entered, callStack>>
       ELSE /\ entered' = TRUE
            /\ callStack' = Append(callStack, nextId)
            /\ status' = [status EXCEPT ![nextId] = "running"]
  /\ UNCHANGED <<propagated, layoutVars, surfaceVars, windowVars, partVars, kwinVars>>

\* The innermost running handler returns normally; enter()'s finally runs.
HandlerReturns ==
  /\ callStack # <<>>
  /\ status' = [status EXCEPT ![callStack[Len(callStack)]] = "done"]
  /\ callStack' = SubSeq(callStack, 1, Len(callStack) - 1)
  /\ entered' = FlagAfterCallback(FALSE)
  /\ UNCHANGED <<nested, nextId, propagated, layoutVars, surfaceVars, windowVars, partVars, kwinVars>>

\* The innermost running handler throws; enter()'s catch and finally run.
HandlerThrows(kind) ==
  /\ callStack # <<>>
  /\ status' = [status EXCEPT ![callStack[Len(callStack)]] = "threw"]
  /\ callStack' = SubSeq(callStack, 1, Len(callStack) - 1)
  /\ entered' = FlagAfterCallback(TRUE)
  /\ propagated' = IF EnterCatches(kind) THEN propagated ELSE propagated + 1
  /\ UNCHANGED <<nested, nextId, layoutVars, surfaceVars, windowVars, partVars, kwinVars>>

NextDriver ==
  \/ \E sig \in Signals : SignalFires(sig)
  \/ HandlerReturns
  \/ \E kind \in ThrowKinds : HandlerThrows(kind)

\* ========================================================================
\* LayoutStoreEntry / LayoutStore
\* ========================================================================
\* createLayoutFromId knows these class ids; every other id takes its else
\* branch.
KnownClasses ==
  {"MonocleLayout", "QuarterLayout", "SpiralLayout", "SpreadLayout",
   "StairLayout", "ThreeColumnLayout", "TileLayout"}

\* The class ids the model passes around: two classes createLayoutFromId
\* knows and the floating layout's own id, which is not in its chain.  The
\* shorter layout orders leave the later ids unlisted.
LayoutIDs == {"TileLayout", "MonocleLayout", "FloatingLayout"}
FullOrder == <<"TileLayout", "MonocleLayout", "FloatingLayout">>
LayoutOrders == {SubSeq(FullOrder, 1, n) : n \in 1..Len(FullOrder)}
\* "" stands for a persisted layout state without a classID.
PersistedIDs == {"", "MonocleLayout", "FloatingLayout"}

Screens == {0, 1}
Desktops == 1..NumDesktops
Activities == {"work"}
Surfaces == [screen : Screens, desktop : Desktops, activity : Activities]
Keys == Screens
Steps == {1, -1}

Null == -1
NoLayouts == [id \in LayoutIDs |-> 0]
NoEntry ==
  [uid |-> -1, currentIndex |-> Null, currentID |-> "", previousID |-> "",
   layouts |-> NoLayouts]
\* A WindowsLayout object: the n-th object createLayoutFromId made for class
\* id `id` in the entry `uid`.
Instance(uid, id, class, n) == [uid |-> uid, id |-> id, class |-> class, serial |-> n]
\* FloatingLayout.instance, the static singleton.
FloatingInstance == Instance(-1, "FloatingLayout", "FloatingLayout", 0)
NullResult == Instance(-1, "", "null", 0)
NoCall ==
  [op |-> "none", screen |-> -1, desktop |-> 0, arg |-> "", before |-> "",
   beforePrev |-> "", fresh |-> FALSE, cached |-> FALSE, result |-> NullResult]

\* util/func wrapIndex: one wrap at either end.
WrapIndex(index, length) ==
  IF index < 0 THEN index + length
  ELSE IF index >= length THEN index - length
  ELSE index

\* Array.prototype.indexOf on the layout order, 0-based, -1 when absent.
IndexOf(order, id) ==
  IF \E i \in 1..Len(order) : order[i] = id
    THEN (CHOOSE i \in 1..Len(order) :
            order[i] = id /\ \A j \in 1..(i - 1) : order[j] # id) - 1
    ELSE -1

\* createLayoutFromId: the class of the object it constructs.
CreateLayoutFromIdTileFallback(id) ==
  IF id \in KnownClasses THEN id ELSE "TileLayout"
CreateLayoutFromId(id) ==
  IF id \in KnownClasses THEN id ELSE "FloatingLayout"

\* loadLayout(ID) on entry e, with c the entry's per-id construction counts.
LoadLayoutAlways(e, c, id) ==
  [e |-> [e EXCEPT !.layouts[id] = c[id] + 1],
   c |-> [c EXCEPT ![id] = c[id] + 1],
   inst |-> Instance(e.uid, id, CreateLayoutFromId(id), c[id] + 1)]
LoadLayout(e, c, id) ==
  IF e.layouts[id] # 0
    THEN [e |-> e, c |-> c,
          inst |-> Instance(e.uid, id, CreateLayoutFromId(id), e.layouts[id])]
    ELSE [e |-> [e EXCEPT !.layouts[id] = c[id] + 1],
          c |-> [c EXCEPT ![id] = c[id] + 1],
          inst |-> Instance(e.uid, id, CreateLayoutFromId(id), c[id] + 1)]

\* new LayoutStoreEntry(config, proxy, uid)
NewEntry(uid, c) ==
  LET id == IF layoutState[uid] # "" THEN layoutState[uid]
            ELSE config.layoutOrder[1]
      e0 == [uid |-> uid, currentIndex |-> 0, currentID |-> id,
             previousID |-> id, layouts |-> NoLayouts]
  IN LoadLayout(e0, c, id)

\* LayoutStoreEntry.currentLayout
CurrentLayout(e, c) == LoadLayout(e, c, e.currentID)

\* LayoutStoreEntry.cycleLayout(step)
CycleLayoutEntry(e, c, step) ==
  LET idx == IF e.currentIndex # Null
               THEN WrapIndex(e.currentIndex + step, Len(config.layoutOrder))
               ELSE 0
      id == config.layoutOrder[idx + 1]
  IN LoadLayout([e EXCEPT !.previousID = e.currentID,
                          !.currentIndex = idx,
                          !.currentID = id], c, id)

\* LayoutStoreEntry.updateCurrentIndex
UpdateCurrentIndexStale(e) == e
UpdateCurrentIndex(e) ==
  LET idx == IndexOf(config.layoutOrder, e.currentID)
  IN [e EXCEPT !.currentIndex = IF idx = -1 THEN Null ELSE idx]

\* LayoutStoreEntry.toggleLayout(targetID); returns the target's layout.
ToggleLayoutKeepsPrevious(e, c, targetID) ==
  LET r == LoadLayout(e, c, targetID)
      swapped == IF r.e.currentID = targetID
                   THEN [r.e EXCEPT !.currentID = r.e.previousID,
                                    !.previousID = targetID]
                   ELSE [r.e EXCEPT !.currentID = targetID]
  IN [r EXCEPT !.e = UpdateCurrentIndex(swapped)]
ToggleLayoutNeverBack(e, c, targetID) ==
  LET r == LoadLayout(e, c, targetID)
      swapped == IF r.e.currentID = targetID
                   THEN r.e
                   ELSE [r.e EXCEPT !.previousID = r.e.currentID,
                                    !.currentID = targetID]
  IN [r EXCEPT !.e = UpdateCurrentIndex(swapped)]
ToggleLayoutEntry(e, c, targetID) ==
  LET r == LoadLayout(e, c, targetID)
      swapped == IF r.e.currentID = targetID
                   THEN [r.e EXCEPT !.currentID = r.e.previousID,
                                    !.previousID = targetID]
                   ELSE [r.e EXCEPT !.previousID = r.e.currentID,
                                    !.currentID = targetID]
  IN [r EXCEPT !.e = UpdateCurrentIndex(swapped)]

\* DriverSurfaceImpl constructor: the ignore flag.
Ignore(srf) == srf.screen \in config.ignoreScreen

\* DriverSurfaceImpl.generateId
GenerateId(srf) ==
  <<srf.screen,
    IF config.layoutPerActivity THEN srf.activity ELSE "",
    IF config.layoutPerDesktop THEN srf.desktop ELSE 0>>

\* The key LayoutStore passes to getEntry for a surface: `${srf.screen}`.
EntryKey(srf) == srf.screen

\* LayoutStore.getEntry(key)
GetEntry(key) ==
  IF store[key] = NoEntry
    THEN NewEntry(key, created[key])
    ELSE [e |-> store[key], c |-> created[key], inst |-> NullResult]

\* An entry is fresh while it is as its constructor left it.
Fresh(e) == e # NoEntry /\ e = NewEntry(e.uid, NoLayouts).e

\* The record of one call: the entry e as the call found it (NoEntry when the
\* call reached none), whether the layout it selected was already cached,
\* and what it returned.
Call(op, srf, arg, e, cached, result) ==
  [op |-> op, screen |-> srf.screen, desktop |-> srf.desktop, arg |-> arg,
   before |-> e.currentID, beforePrev |-> e.previousID, fresh |-> Fresh(e),
   cached |-> cached, result |-> result]

\* Nothing has asked the registry for a layout yet.
EmptyStore ==
  /\ store = [k \in Keys |-> NoEntry]
  /\ created = [k \in Keys |-> NoLayouts]
  /\ lastCall = NoCall
  /\ prevCall = NoCall

\* One entry: every configured order, with and without a persisted classID.
InitEntry ==
  /\ config \in [layoutOrder : LayoutOrders, layoutPerDesktop : {FALSE},
                 layoutPerActivity : {FALSE}, ignoreScreen : {{}}]
  /\ layoutState \in {f \in [Keys -> PersistedIDs] : f[1] = ""}
  /\ EmptyStore

\* The registry: every configured order, both per-desktop policies, screen 1
\* ignored or not, nothing persisted.
InitLayout ==
  /\ config \in [layoutOrder : LayoutOrders, layoutPerDesktop : BOOLEAN,
                 layoutPerActivity : {FALSE}, ignoreScreen : {{}, {1}}]
  /\ layoutState = [k \in Keys |-> ""]
  /\ EmptyStore

\* ---- the methods of one LayoutStoreEntry (the entry with uid EntryUid) ----
EntryUid == 0
EntrySurface == [screen |-> EntryUid, desktop |-> 1, activity |-> "work"]

\* new LayoutStoreEntry(config, proxy, EntryUid)
EntryNew ==
  /\ store[EntryUid] = NoEntry
  /\ LET r == NewEntry(EntryUid, created[EntryUid])
     IN /\ store' = [store EXCEPT ![EntryUid] = r.e]
        /\ created' = [created EXCEPT ![EntryUid] = r.c]
        /\ lastCall' = Call("new", EntrySurface, "", NoEntry, FALSE, r.inst)
  /\ prevCall' = lastCall
  /\ UNCHANGED <<config, layoutState, driverVars, surfaceVars, windowVars, partVars, kwinVars>>

\* entry.currentLayout
EntryCurrentLayout ==
  /\ store[EntryUid] # NoEntry
  /\ LET e == store[EntryUid]
         r == CurrentLayout(e, created[EntryUid])
     IN /\ store' = [store EXCEPT ![EntryUid] = r.e]
        /\ created' = [created EXCEPT ![EntryUid] = r.c]
        /\ lastCall' = Call("get", EntrySurface, "", e,
                            e.layouts[e.currentID] # 0, r.inst)
  /\ prevCall' = lastCall
  /\ UNCHANGED <<config, layoutState, driverVars, surfaceVars, windowVars, partVars, kwinVars>>

\* entry.cycleLayout(step)
EntryCycleLayout(step) ==
  /\ store[EntryUid] # NoEntry
  /\ LET e == store[EntryUid]
         r == CycleLayoutEntry(e, created[EntryUid], step)
     IN /\ store' = [store EXCEPT ![EntryUid] = r.e]
        /\ created' = [created EXCEPT ![EntryUid] = r.c]
        /\ lastCall' = Call("cycle", EntrySurface, IF step = 1 THEN "+1" ELSE "-1",
                            e, e.layouts[r.e.currentID] # 0, r.inst)
  /\ prevCall' = lastCall
  /\ UNCHANGED <<config, layoutState, driverVars, surfaceVars, windowVars, partVars, kwinVars>>

\* entry.toggleLayout(id)
EntryToggleLayout(id) ==
  /\ store[EntryUid] # NoEntry
  /\ LET e == store[EntryUid]
         r == ToggleLayoutEntry(e, created[EntryUid], id)
     IN /\ store' = [store EXCEPT ![EntryUid] = r.e]
        /\ created' = [created EXCEPT ![EntryUid] = r.c]
        /\ lastCall' = Call("toggle", EntrySurface, id, e,
                            e.layouts[id] # 0, r.inst)
  /\ prevCall' = lastCall
  /\ UNCHANGED <<config, layoutState, driverVars, surfaceVars, windowVars, partVars, kwinVars>>

NextEntry ==
  \/ EntryNew
  \/ EntryCurrentLayout
  \/ \E step \in Steps : EntryCycleLayout(step)
  \/ \E id \in LayoutIDs : EntryToggleLayout(id)

\* ---- the methods of LayoutStore ----
\* LayoutStore.getCurrentLayout(srf)
GetCurrentLayout(srf) ==
  /\ IF Ignore(srf)
       THEN /\ lastCall' = Call("get", srf, "", NoEntry, FALSE, FloatingInstance)
            /\ UNCHANGED <<store, created>>
       ELSE LET g == GetEntry(EntryKey(srf))
                r == CurrentLayout(g.e, g.c)
            IN /\ store' = [store EXCEPT ![EntryKey(srf)] = r.e]
               /\ created' = [created EXCEPT ![EntryKey(srf)] = r.c]
               /\ lastCall' = Call("get", srf, "", g.e,
                                   g.e.layouts[g.e.currentID] # 0, r.inst)
  /\ UNCHANGED <<config, layoutState, prevCall, driverVars, surfaceVars, windowVars, partVars, kwinVars>>

\* LayoutStore.cycleLayout(srf, step)
CycleLayout(srf, step) ==
  /\ IF Ignore(srf)
       THEN /\ lastCall' = Call("cycle", srf, IF step = 1 THEN "+1" ELSE "-1",
                                NoEntry, FALSE, NullResult)
            /\ UNCHANGED <<store, created>>
       ELSE LET g == GetEntry(EntryKey(srf))
                r == CycleLayoutEntry(g.e, g.c, step)
            IN /\ store' = [store EXCEPT ![EntryKey(srf)] = r.e]
               /\ created' = [created EXCEPT ![EntryKey(srf)] = r.c]
               /\ lastCall' = Call("cycle", srf, IF step = 1 THEN "+1" ELSE "-1",
                                   g.e,
                                   g.e.layouts[r.e.currentID] # 0, r.inst)
  /\ UNCHANGED <<config, layoutState, prevCall, driverVars, surfaceVars, windowVars, partVars, kwinVars>>

\* LayoutStore.toggleLayout(surf, layoutClassID)
ToggleLayout(srf, id) ==
  /\ IF Ignore(srf)
       THEN /\ lastCall' = Call("toggle", srf, id, NoEntry, FALSE, NullResult)
            /\ UNCHANGED <<store, created>>
       ELSE LET g == GetEntry(EntryKey(srf))
                r == ToggleLayoutEntry(g.e, g.c, id)
            IN /\ store' = [store EXCEPT ![EntryKey(srf)] = r.e]
               /\ created' = [created EXCEPT ![EntryKey(srf)] = r.c]
               /\ lastCall' = Call("toggle", srf, id, g.e,
                                   g.e.layouts[id] # 0, r.inst)
  /\ UNCHANGED <<config, layoutState, prevCall, driverVars, surfaceVars, windowVars, partVars, kwinVars>>

NextLayout ==
  \/ \E srf \in Surfaces : GetCurrentLayout(srf)
  \/ \E srf \in Surfaces, step \in Steps : CycleLayout(srf, step)
  \/ \E srf \in Surfaces, id \in LayoutIDs : ToggleLayout(srf, id)

\* ========================================================================
\* DriverSurfaceImpl: group
\* ========================================================================
\* The const in the group getter, indexed by screen (0-based in the source).
CustomScreenOrder == <<4, 1, 3, 2, 5, 6, 7, 8, 9>>
\* The group ids the explicit setter is called with: one that no modelled
\* surface derives, one that desktop 1, screen 0 derives, and 0, which the
\* getter's `if (this._group)` and `if (!g)` take for "no group".
SetGroups == {7, 4, 0}
SurfaceSlots == 1..MaxSurfaces
NoSurface == [desktop |-> 0, screen |-> -1, group |-> 0]
NoRead ==
  [op |-> "none", slot |-> 0, desktop |-> 0, screen |-> -1, value |-> 0,
   derived |-> FALSE]

\* proxy.getSurfaceGroup(desktop, screen): 0 when nothing is persisted.
GetSurfaceGroup(sg, desktop, screen) == sg[<<desktop, screen>>]
\* proxy.setSurfaceGroup(desktop, screen, groupID)
SetSurfaceGroup(sg, desktop, screen, groupID) ==
  [sg EXCEPT ![<<desktop, screen>>] = groupID]

\* set group(groupID) on the surface object obj, sg being the persisted groups.
GroupSetterCacheOnly(obj, sg, groupID) ==
  [obj |-> [obj EXCEPT !.group = groupID], sg |-> sg]
GroupSetter(obj, sg, groupID) ==
  [obj |-> [obj EXCEPT !.group = groupID],
   sg |-> SetSurfaceGroup(sg, obj.desktop, obj.screen, groupID)]

\* get group() on the surface object obj.
GroupGetterNoPersist(obj, sg) ==
  IF obj.group # 0
    THEN [obj |-> obj, sg |-> sg, value |-> obj.group]
    ELSE LET g0 == GetSurfaceGroup(sg, obj.desktop, obj.screen)
             g == IF g0 = 0
                    THEN (obj.desktop - 1) * 5 + CustomScreenOrder[obj.screen + 1]
                    ELSE g0
         IN [obj |-> [obj EXCEPT !.group = g], sg |-> sg, value |-> g]
GroupGetterAlwaysDerives(obj, sg) ==
  IF obj.group # 0
    THEN [obj |-> obj, sg |-> sg, value |-> obj.group]
    ELSE LET g == (obj.desktop - 1) * 5 + CustomScreenOrder[obj.screen + 1]
             r == GroupSetter(obj, sg, g)
         IN [obj |-> r.obj, sg |-> r.sg, value |-> g]
GroupGetter(obj, sg) ==
  IF obj.group # 0
    THEN [obj |-> obj, sg |-> sg, value |-> obj.group]
    ELSE LET g0 == GetSurfaceGroup(sg, obj.desktop, obj.screen)
         IN IF g0 = 0
              THEN LET g == (obj.desktop - 1) * 5
                              + CustomScreenOrder[obj.screen + 1]
                       r == GroupSetter(obj, sg, g)
                   IN [obj |-> [r.obj EXCEPT !.group = g], sg |-> r.sg,
                       value |-> g]
              ELSE [obj |-> [obj EXCEPT !.group = g0], sg |-> sg, value |-> g0]

InitSurface ==
  /\ surfaceGroup = [p \in Desktops \X Screens |-> 0]
  /\ surfaces = [i \in SurfaceSlots |-> NoSurface]
  /\ lastRead = NoRead

\* new DriverSurfaceImpl(screen, activity, desktop, ...); the objects are
\* numbered in the order of their construction.
SurfaceNew(i, desktop, screen) ==
  /\ surfaces[i] = NoSurface
  /\ \A j \in 1..(i - 1) : surfaces[j] # NoSurface
  /\ surfaces' = [surfaces EXCEPT ![i] =
                    [desktop |-> desktop, screen |-> screen, group |-> 0]]
  /\ lastRead' = [op |-> "new", slot |-> i, desktop |-> desktop,
                  screen |-> screen, value |-> 0, derived |-> FALSE]
  /\ UNCHANGED <<surfaceGroup, driverVars, layoutVars, windowVars, partVars, kwinVars>>

\* A read of surface.group.
SurfaceGroupGet(i) ==
  /\ surfaces[i] # NoSurface
  /\ LET obj == surfaces[i]
         r == GroupGetter(obj, surfaceGroup)
     IN /\ surfaces' = [surfaces EXCEPT ![i] = r.obj]
        /\ surfaceGroup' = r.sg
        /\ lastRead' =
             [op |-> "get", slot |-> i, desktop |-> obj.desktop,
              screen |-> obj.screen, value |-> r.value,
              derived |-> (obj.group = 0 /\
                 GetSurfaceGroup(surfaceGroup, obj.desktop, obj.screen) = 0)]
  /\ UNCHANGED <<driverVars, layoutVars, windowVars, partVars, kwinVars>>

\* surface.group = groupID
SurfaceGroupSet(i, groupID) ==
  /\ surfaces[i] # NoSurface
  /\ LET obj == surfaces[i]
         r == GroupSetter(obj, surfaceGroup, groupID)
     IN /\ surfaces' = [surfaces EXCEPT ![i] = r.obj]
        /\ surfaceGroup' = r.sg
        /\ lastRead' = [op |-> "set", slot |-> i, desktop |-> obj.desktop,
                        screen |-> obj.screen, value |-> groupID,
                        derived |-> FALSE]
  /\ UNCHANGED <<driverVars, layoutVars, windowVars, partVars, kwinVars>>

NextSurface ==
  \/ \E i \in SurfaceSlots, d \in Desktops, s \in Screens : SurfaceNew(i, d, s)
  \/ \E i \in SurfaceSlots : SurfaceGroupGet(i)
  \/ \E i \in SurfaceSlots, g \in SetGroups : SurfaceGroupSet(i, g)

\* ========================================================================
\* DriverWindowImpl: surface, group, hidden, on
\* ========================================================================
Windows == {1}
\* client.activities: on all activities, or on one that is not the surfaces'.
WindowActivities == {<<>>, <<"home">>}
\* client.desktop: a virtual desktop or -1, on all desktops.
ClientDesktops == Desktops \cup {-1}
\* proxy.workspace().desktops: the last desktop is where hidden windows go.
HiddenDesktop == NumDesktops
NoWindow ==
  [group |-> 0, screen |-> Null, desktop |-> 0, savedDesktop |-> 0,
   hidden |-> FALSE, activities |-> <<>>]
NoWindowState == [group |-> 0, allDesktops |-> FALSE]
\* The group in the window state an earlier session left behind: none, or
\* the group desktop 1, screen 0 derives.
PersistedWindowGroups == {0, 4}
NoWinCall ==
  [op |-> "none", win |-> 0, srfs |-> <<>>, groups |-> <<>>, on |-> <<>>]

\* new DriverSurfaceImpl(screen, activity, desktop, ...): the group cache.
NewSurface(srf) == [desktop |-> srf.desktop, screen |-> srf.screen, group |-> 0]

\* DriverImpl.screens(activity, desktop): one new surface per screen.
ScreensOf(activity, desktop) ==
  [i \in 1..Cardinality(Screens) |->
     [screen |-> i - 1, desktop |-> desktop, activity |-> activity]]

\* get group() of the window: the cache, else the persisted window state.
WindowGroupGetter(win, ws) ==
  IF win.group # 0
    THEN [win |-> win, value |-> win.group]
    ELSE [win |-> [win EXCEPT !.group = ws.group], value |-> ws.group]

\* set group(groupId) of the window
WindowGroupSetter(win, ws, groupId) ==
  [win |-> [win EXCEPT !.group = groupId], ws |-> [ws EXCEPT !.group = groupId]]

\* set desktop(desktop) of the window
DesktopSetter(win, ws, desktop) ==
  [win |-> [win EXCEPT !.desktop = desktop],
   ws |-> [ws EXCEPT !.allDesktops = (desktop = -1)]]

\* set hidden(hide) of the window
HiddenSetter(win, ws, hide) ==
  LET w1 == [win EXCEPT !.hidden = hide]
  IN IF hide /\ win.desktop # HiddenDesktop
       THEN DesktopSetter([w1 EXCEPT !.savedDesktop = win.desktop], ws,
                          HiddenDesktop)
       ELSE IF win.desktop = HiddenDesktop
              THEN [win |-> [w1 EXCEPT !.desktop = w1.savedDesktop], ws |-> ws]
              ELSE [win |-> w1, ws |-> ws]

\* set surface(surf) of the window, surf being a surface object.
SurfaceSetter(win, ws, sg, surf) ==
  LET h == HiddenSetter(win, ws, FALSE)
      d == IF surf.desktop # -1 THEN DesktopSetter(h.win, h.ws, surf.desktop)
           ELSE h
      w2 == [d.win EXCEPT !.screen = surf.screen]
      r == GroupGetter(surf, sg)
      g == WindowGroupSetter(w2, d.ws, r.value)
  IN [win |-> g.win, ws |-> g.ws, sg |-> r.sg]

\* window.on(surf) for a surface object made for srf: the answer, the group
\* the surface reported and what the two group getters left behind.
On(win, ws, sg, srf) ==
  LET wg == WindowGroupGetter(win, ws)
      r == GroupGetter(NewSurface(srf), sg)
  IN [win |-> wg.win, sg |-> r.sg, group |-> r.value,
      value |->
        \/ wg.value = r.value
        \/ /\ (win.desktop = srf.desktop \/ win.desktop = -1)
           /\ \/ Len(win.activities) = 0
              \/ \E i \in 1..Len(win.activities) : win.activities[i] = srf.activity
           /\ win.screen = srf.screen]

\* window.on(surf) for each surface of srfs in turn.
RECURSIVE OnEach(_, _, _, _)
OnEach(win, ws, sg, srfs) ==
  IF srfs = <<>>
    THEN [win |-> win, sg |-> sg, groups |-> <<>>, on |-> <<>>]
    ELSE LET r == On(win, ws, sg, Head(srfs))
             rest == OnEach(r.win, ws, r.sg, Tail(srfs))
         IN [win |-> rest.win, sg |-> rest.sg,
             groups |-> <<r.group>> \o rest.groups,
             on |-> <<r.value>> \o rest.on]

InitWindow ==
  /\ windows = [w \in Windows |-> NoWindow]
  /\ windowState = [w \in Windows |-> NoWindowState]
  /\ winCall = NoWinCall
  /\ calls = 0

\* As InitWindow, with the window state of an earlier session.
InitRestoredWindow ==
  /\ windows = [w \in Windows |-> NoWindow]
  /\ windowState \in [Windows -> [group : PersistedWindowGroups,
                                  allDesktops : {FALSE}]]
  /\ winCall = NoWinCall
  /\ calls = 0

\* One more call is made in this run.
OneCall == calls < MaxCalls /\ calls' = calls + 1

\* new DriverWindowImpl(client, ...) for a client that is not ignored.
WindowNew(w, desktop, screen, activities) ==
  /\ windows[w] = NoWindow
  /\ OneCall
  /\ LET win0 == [group |-> 0, screen |-> screen, desktop |-> desktop,
                  savedDesktop |-> desktop, hidden |-> FALSE,
                  activities |-> activities]
         h == HiddenSetter(win0, windowState[w], FALSE)
     IN /\ windows' = [windows EXCEPT ![w] = h.win]
        /\ windowState' = [windowState EXCEPT ![w] = h.ws]
  /\ winCall' = [NoWinCall EXCEPT !.op = "new", !.win = w]
  /\ UNCHANGED <<surfaceVars, driverVars, layoutVars, partVars, kwinVars>>

\* window.surface = surf, with surf a new surface object (as the screenChanged
\* handler and moveWindowToSurface pass it).
WindowSurfaceSet(w, srf) ==
  /\ windows[w] # NoWindow
  /\ OneCall
  /\ LET r == SurfaceSetter(windows[w], windowState[w], surfaceGroup,
                            NewSurface(srf))
     IN /\ windows' = [windows EXCEPT ![w] = r.win]
        /\ windowState' = [windowState EXCEPT ![w] = r.ws]
        /\ surfaceGroup' = r.sg
        /\ winCall' = [NoWinCall EXCEPT !.op = "surface", !.win = w]
  /\ UNCHANGED <<surfaces, lastRead, driverVars, layoutVars, partVars, kwinVars>>

\* surf.group = groupID on a new surface object for srf.
SurfaceSetGroup(srf, groupID) ==
  /\ OneCall
  /\ surfaceGroup' = GroupSetter(NewSurface(srf), surfaceGroup, groupID).sg
  /\ winCall' = [NoWinCall EXCEPT !.op = "setGroup", !.srfs = <<srf>>]
  /\ UNCHANGED <<surfaces, lastRead, windows, windowState, driverVars, layoutVars, partVars, kwinVars>>

\* A read of surf.group on a new surface object for srf.
SurfaceReadGroup(srf) ==
  /\ OneCall
  /\ LET r == GroupGetter(NewSurface(srf), surfaceGroup)
     IN /\ surfaceGroup' = r.sg
        /\ winCall' = [NoWinCall EXCEPT !.op = "readGroup"]
  /\ UNCHANGED <<surfaces, lastRead, windows, windowState, driverVars, layoutVars, partVars, kwinVars>>

\* window.on(surf) for each of the given surfaces.
WindowOnSurfaces(w, op, srfs) ==
  /\ windows[w] # NoWindow
  /\ OneCall
  /\ LET r == OnEach(windows[w], windowState[w], surfaceGroup, srfs)
     IN /\ windows' = [windows EXCEPT ![w] = r.win]
        /\ surfaceGroup' = r.sg
        /\ winCall' = [op |-> op, win |-> w, srfs |-> <<>>,
                       groups |-> r.groups, on |-> r.on]
  /\ UNCHANGED <<surfaces, lastRead, windowState, driverVars, layoutVars, partVars, kwinVars>>

\* screens(activity, desktop).map(surf => window.on(surf))
WindowOnScreens(w, activity, desktop) ==
  /\ desktop \in Desktops
  /\ WindowOnSurfaces(w, "onScreens", ScreensOf(activity, desktop))

\* window.on(a) and window.on(b) for two surfaces, a listed before b.
WindowOnPair(w, a, b) ==
  /\ \/ a.desktop < b.desktop
     \/ a.desktop = b.desktop /\ a.screen < b.screen
  /\ WindowOnSurfaces(w, "onPair", <<a, b>>)

\* The calls that reach the persisted groups.
NextGroup ==
  \/ \E w \in Windows, d \in ClientDesktops, s \in Screens,
        acts \in WindowActivities : WindowNew(w, d, s, acts)
  \/ \E w \in Windows, srf \in Surfaces : WindowSurfaceSet(w, srf)
  \/ \E srf \in Surfaces, g \in SetGroups : SurfaceSetGroup(srf, g)
  \/ \E srf \in Surfaces : SurfaceReadGroup(srf)
  \/ \E w \in Windows, a \in Activities, d \in Desktops : WindowOnScreens(w, a, d)

NextWindow ==
  \/ \E w \in Windows, d \in ClientDesktops, s \in Screens,
        acts \in WindowActivities : WindowNew(w, d, s, acts)
  \/ \E w \in Windows, srf \in Surfaces : WindowSurfaceSet(w, srf)
  \/ \E srf \in Surfaces, g \in SetGroups : SurfaceSetGroup(srf, g)
  \/ \E srf \in Surfaces : SurfaceReadGroup(srf)
  \/ \E w \in Windows, a \in Activities, d \in Desktops : WindowOnScreens(w, a, d)
  \/ \E w \in Windows, a \in Surfaces, b \in Surfaces : WindowOnPair(w, a, b)

\* window.hidden = hide
WindowSetHidden(w, hide) ==
  /\ windows[w] # NoWindow
  /\ OneCall
  /\ LET h == HiddenSetter(windows[w], windowState[w], hide)
     IN /\ windows' = [windows EXCEPT ![w] = h.win]
        /\ windowState' = [windowState EXCEPT ![w] = h.ws]
  /\ winCall' = [NoWinCall EXCEPT !.op = "hidden", !.win = w]
  /\ UNCHANGED <<surfaceVars, driverVars, layoutVars, partVars, kwinVars>>

\* A new window that is hidden, shown and moved between surfaces.
NextHidden ==
  \/ \E w \in Windows, d \in ClientDesktops, s \in Screens,
        acts \in WindowActivities : WindowNew(w, d, s, acts)
  \/ \E w \in Windows, hide \in BOOLEAN : WindowSetHidden(w, hide)
  \/ \E w \in Windows, srf \in Surfaces : WindowSurfaceSet(w, srf)

\* ========================================================================
\* StairLayoutPart, TabbedMasterLayout
\* ========================================================================
\* The actions of controller/action the layouts test for with instanceof,
\* and one they do not know.
ActionKinds ==
  {"DecreaseLayoutMasterAreaSize", "IncreaseLayoutMasterAreaSize",
   "IncreaseMasterAreaWindowCount", "DecreaseMasterAreaWindowCount",
   "Rotate", "RotateReverse", "RotatePart", "FocusNextWindow"}
TabbedKinds == ActionKinds \ {"FocusNextWindow"}
StairKinds == {"DecreaseMasterAreaWindowCount", "IncreaseMasterAreaWindowCount"}
RotationKinds == {"Rotate", "RotateReverse", "RotatePart"}

\* Rect(x, y, width, height)
Rect(x, y, width, height) == [x |-> x, y |-> y, width |-> width, height |-> height]
Areas == {Rect(0, 0, 900, 600), Rect(100, 50, 800, 400)}
NoRect == Rect(0, 0, 0, 0)
NoArrange == [screen |-> -1, desktop |-> 0, activity |-> ""]
NoPartCall ==
  [target |-> "none", op |-> "none", kind |-> "", area |-> NoRect, n |-> 0,
   space |-> 0, res |-> <<>>, tiles |-> <<>>, defaults |-> 0, arranges |-> 0,
   arranged |-> NoArrange, notifications |-> 0]

Min(a, b) == IF a < b THEN a ELSE b
Max(a, b) == IF a > b THEN a ELSE b

\* ---- StairLayoutPart ----
\* The constructor's this.space.
StairInitialSpace == 24

\* apply(area, tileables) with n tileables: the rectangles returned and the
\* windows as the call leaves them.  Index i is 1-based here, i - 1 in the
\* source.
StairApplyReversed(space, area, n) ==
  LET geometry(i) ==
        Rect(area.x + space * (i - 1), area.y + space * (n - i),
             area.width - space * (i - 1), area.height - space * (n - i))
  IN [res |-> [i \in 1..n |-> geometry(i)],
      tiles |-> [i \in 1..n |-> [state |-> "Tiled", geometry |-> geometry(i)]]]
StairApply(space, area, n) ==
  LET dx(i) == space * (n - (i - 1) - 1)
      dy(i) == space * (i - 1)
      geometry(i) ==
        Rect(area.x + dx(i), area.y + dy(i),
             area.width - dx(i), area.height - dy(i))
  IN [res |-> [i \in 1..n |-> geometry(i)],
      tiles |-> [i \in 1..n |-> [state |-> "Tiled", geometry |-> geometry(i)]]]

\* executeAction(_engine, action): the new space and the number of calls of
\* action.executeWithoutLayoutOverride().
StairExecuteUnclamped(space, kind) ==
  IF kind = "DecreaseMasterAreaWindowCount"
    THEN [space |-> space - 8, defaults |-> 0]
  ELSE IF kind = "IncreaseMasterAreaWindowCount"
    THEN [space |-> space + 8, defaults |-> 0]
  ELSE [space |-> space, defaults |-> 1]
StairExecuteSilent(space, kind) ==
  IF kind = "DecreaseMasterAreaWindowCount"
    THEN [space |-> Max(16, space - 8), defaults |-> 0]
  ELSE IF kind = "IncreaseMasterAreaWindowCount"
    THEN [space |-> Min(160, space + 8), defaults |-> 0]
  ELSE [space |-> space, defaults |-> 0]
StairExecute(space, kind) ==
  IF kind = "DecreaseMasterAreaWindowCount"
    THEN [space |-> Max(16, space - 8), defaults |-> 0]
  ELSE IF kind = "IncreaseMasterAreaWindowCount"
    THEN [space |-> Min(160, space + 8), defaults |-> 0]
  ELSE [space |-> space, defaults |-> 1]

\* ---- TabbedMasterLayout ----
\* The master ratio in units of 0.05: 0.2 is 4, 0.8 is 16, 0.5 is 10.
MIN_MASTER_RATIO == 4
MAX_MASTER_RATIO == 16
\* HalfSplitLayoutPart's ratio before any action.
InitialRatio == 10
Angles == {0, 90, 180, 270}

\* util/func slide(value, step), for a value on the grid of the step.
Slide(value, step) == value + step
\* util/func clip(value, min, max)
Clip(value, min, max) == Max(min, Min(max, value))
\* RotateLayoutPart.rotate(amount)
RotateBy(angle, amount) == (angle + amount + 360) % 360

\* set numMasterTiles(value)
NumMasterTilesSetterPartOnly(t, value) == [t EXCEPT !.primarySize = value]
NumMasterTilesSetter(t, value) ==
  [t EXCEPT !.primarySize = value, !.state.numMasterTiles = value]

\* new TabbedMasterLayout(config, proxy, uid), state being the LayoutState
\* of (uid, classID).
NewTabbed(uid, state) ==
  NumMasterTilesSetter(
    [uid |-> uid, primarySize |-> 0, ratio |-> InitialRatio,
     angle |-> state.rotation, partAngle |-> state.partRotation,
     stair |-> StairInitialSpace, state |-> state],
    state.numMasterTiles)

\* executeAction(engine, action): the master ratio after it.
MasterRatioUnclipped(ratio, kind) ==
  IF kind = "DecreaseLayoutMasterAreaSize" THEN Slide(ratio, -1)
  ELSE IF kind = "IncreaseLayoutMasterAreaSize" THEN Slide(ratio, 1)
  ELSE ratio
MasterRatio(ratio, kind) ==
  IF kind = "DecreaseLayoutMasterAreaSize"
    THEN Clip(Slide(ratio, -1), MIN_MASTER_RATIO, MAX_MASTER_RATIO)
  ELSE IF kind = "IncreaseLayoutMasterAreaSize"
    THEN Clip(Slide(ratio, 1), MIN_MASTER_RATIO, MAX_MASTER_RATIO)
  ELSE ratio

\* executeAction(engine, action): the master window count after it.
MasterCountUnbounded(t, kind) ==
  IF kind = "IncreaseMasterAreaWindowCount"
    THEN NumMasterTilesSetter(t, t.primarySize + 1)
  ELSE IF kind = "DecreaseMasterAreaWindowCount"
    THEN NumMasterTilesSetter(t, t.primarySize - 1)
  ELSE t
MasterCount(t, kind) ==
  IF kind = "IncreaseMasterAreaWindowCount"
    THEN IF t.primarySize < 10 THEN NumMasterTilesSetter(t, t.primarySize + 1)
         ELSE t
  ELSE IF kind = "DecreaseMasterAreaWindowCount"
    THEN IF t.primarySize > 0 THEN NumMasterTilesSetter(t, t.primarySize - 1)
         ELSE t
  ELSE t

\* executeAction(engine, action): the angles after it.
Rotated(t, kind) ==
  IF kind = "Rotate"
    THEN [t EXCEPT !.angle = RotateBy(t.angle, 90),
                   !.state.rotation = RotateBy(t.angle, 90)]
  ELSE IF kind = "RotateReverse"
    THEN [t EXCEPT !.angle = RotateBy(t.angle, -90),
                   !.state.rotation = RotateBy(t.angle, -90)]
  ELSE IF kind = "RotatePart"
    THEN [t EXCEPT !.partAngle = RotateBy(t.partAngle, 90),
                   !.state.partRotation = RotateBy(t.partAngle, 90)]
  ELSE t

\* executeAction(engine, action): the surfaces it passes to engine.arrange,
\* current being engine.currentSurface.
ArrangesNone(kind, current) == <<>>
Arranges(kind, current) ==
  IF kind \in TabbedKinds THEN <<current>> ELSE <<>>

\* executeAction(engine, action) of the layout t.
TabbedExecute(t, kind, current) ==
  [t |-> Rotated(MasterCount([t EXCEPT !.ratio = MasterRatio(t.ratio, kind)],
                             kind), kind),
   defaults |-> IF kind \in TabbedKinds THEN 0 ELSE 1,
   notifications |->
     IF kind \in {"IncreaseMasterAreaWindowCount",
                  "DecreaseMasterAreaWindowCount"} THEN 1 ELSE 0,
   arranged |-> Arranges(kind, current)]

\* The engine passes an action to the layout of its current surface: the
\* layout t is the one registered under the surface's key.
Dispatches(t, current) == t.uid = EntryKey(current)

InitStair ==
  /\ stairSpace = StairInitialSpace
  /\ partCall = NoPartCall

\* A layout made for any key from any persisted LayoutState.
InitTabbed ==
  tabbed \in {NewTabbed(uid, st) :
                uid \in Keys,
                st \in [rotation : Angles, partRotation : Angles,
                        numMasterTiles : 0..10]}

\* The layout of key 0 made from the default LayoutState.
InitOneTabbed ==
  tabbed = NewTabbed(0, [rotation |-> 0, partRotation |-> 0, numMasterTiles |-> 1])

\* part.apply(area, tileables) with n windows
StairApplyCall(area, n) ==
  /\ LET r == StairApply(stairSpace, area, n)
     IN partCall' = [NoPartCall EXCEPT !.target = "stair", !.op = "apply",
                                       !.area = area, !.n = n,
                                       !.space = stairSpace,
                                       !.res = r.res, !.tiles = r.tiles]
  /\ UNCHANGED <<stairSpace, tabbed, other, driverVars, layoutVars, surfaceVars, windowVars, kwinVars>>

\* part.executeAction(engine, action)
StairExecuteAction(kind) ==
  /\ LET r == StairExecute(stairSpace, kind)
     IN /\ stairSpace' = r.space
        /\ partCall' = [NoPartCall EXCEPT !.target = "stair", !.op = "execute",
                                          !.kind = kind,
                                          !.defaults = r.defaults]
  /\ UNCHANGED <<tabbed, other, driverVars, layoutVars, surfaceVars, windowVars, kwinVars>>

\* layout.executeAction(engine, action) with engine.currentSurface = current
TabbedExecuteAction(kind, current) ==
  /\ Dispatches(tabbed, current)
  /\ LET r == TabbedExecute(tabbed, kind, current)
     IN /\ tabbed' = r.t
        /\ partCall' = [NoPartCall EXCEPT
                          !.target = "tabbed", !.op = "execute", !.kind = kind,
                          !.defaults = r.defaults,
                          !.arranges = Len(r.arranged),
                          !.arranged = IF r.arranged = <<>> THEN NoArrange
                                       ELSE r.arranged[Len(r.arranged)],
                          !.notifications = r.notifications]
  /\ UNCHANGED <<stairSpace, other, driverVars, layoutVars, surfaceVars, windowVars, kwinVars>>

\* ---- TabbedMasterLayout.clone ----
\* The record of a layout that has not been made.
NoLayout ==
  [uid |-> -1, primarySize |-> 0, ratio |-> 0, angle |-> 0, partAngle |-> 0,
   stair |-> 0, state |-> [rotation |-> 0, partRotation |-> 0, numMasterTiles |-> 0]]
InitClone == other = NoLayout

\* clone(): a new TabbedMasterLayout for this.uid, then the original's
\* master ratio and master window count.  The new instance's LayoutState is
\* made for the same (uid, classID), so it is the original's persisted state.
Clone(t) ==
  LET fresh == NewTabbed(t.uid, t.state)
  IN NumMasterTilesSetter([fresh EXCEPT !.ratio = t.ratio], t.primarySize)

\* The action kinds passed to the original and its clone.
CloneKinds ==
  {"IncreaseLayoutMasterAreaSize", "IncreaseMasterAreaWindowCount",
   "Rotate", "FocusNextWindow"}

\* other = layout.clone()
TabbedClone ==
  /\ OneCall
  /\ LET o == Clone(tabbed)
     IN /\ other' = o
        /\ tabbed' = [tabbed EXCEPT !.state = o.state]
  /\ partCall' = [NoPartCall EXCEPT !.target = "tabbed", !.op = "clone"]
  /\ UNCHANGED <<stairSpace, windows, windowState, winCall, driverVars,
                 layoutVars, surfaceVars, kwinVars>>

\* layout.executeAction(engine, action) on the original, once it has a clone
OriginalExecuteAction(kind, current) ==
  /\ other # NoLayout
  /\ Dispatches(tabbed, current)
  /\ OneCall
  /\ LET r == TabbedExecute(tabbed, kind, current)
     IN /\ tabbed' = r.t
        /\ other' = [other EXCEPT !.state = r.t.state]
        /\ partCall' = [NoPartCall EXCEPT
                          !.target = "tabbed", !.op = "execute", !.kind = kind,
                          !.defaults = r.defaults,
                          !.arranges = Len(r.arranged),
                          !.notifications = r.notifications]
  /\ UNCHANGED <<stairSpace, windows, windowState, winCall, driverVars,
                 layoutVars, surfaceVars, kwinVars>>

\* other.executeAction(engine, action)
CloneExecuteAction(kind, current) ==
  /\ other # NoLayout
  /\ Dispatches(other, current)
  /\ OneCall
  /\ LET r == TabbedExecute(other, kind, current)
     IN /\ other' = r.t
        /\ tabbed' = [tabbed EXCEPT !.state = r.t.state]
        /\ partCall' = [NoPartCall EXCEPT
                          !.target = "other", !.op = "execute", !.kind = kind,
                          !.defaults = r.defaults,
                          !.arranges = Len(r.arranged),
                          !.notifications = r.notifications]
  /\ UNCHANGED <<stairSpace, windows, windowState, winCall, driverVars,
                 layoutVars, surfaceVars, kwinVars>>

NextClone ==
  \/ TabbedClone
  \/ \E kind \in CloneKinds, current \in Surfaces : OriginalExecuteAction(kind, current)
  \/ \E kind \in CloneKinds, current \in Surfaces : CloneExecuteAction(kind, current)

NextStair ==
  \/ \E area \in Areas, n \in 0..MaxTiles : StairApplyCall(area, n)
  \/ \E kind \in ActionKinds : StairExecuteAction(kind)

NextTabbed ==
  \E kind \in ActionKinds, current \in Surfaces : TabbedExecuteAction(kind, current)

\* The part and the layout side by side, the layout with every action but
\* the rotations.
NextActions ==
  \/ \E kind \in ActionKinds : StairExecuteAction(kind)
  \/ \E kind \in ActionKinds \ RotationKinds, current \in Surfaces :
       TabbedExecuteAction(kind, current)

\* ========================================================================
\* DriverWindowImpl.commit
\* ========================================================================
Size(width, height) == [width |-> width, height |-> height]
\* client.minSize and client.maxSize of the clients tried.
MinSizes == {Size(0, 0), Size(1000, 100)}
MaxSizes == {Size(5000, 5000), Size(400, 400)}
\* The geometries the engine asks for: the two halves of the first area, one
\* that sticks out to the right and below, one that sticks out to the left.
Geometries ==
  {Rect(0, 0, 450, 600), Rect(450, 0, 450, 600), Rect(600, 300, 400, 400),
   Rect(-50, 0, 300, 300)}
\* client.frameGeometry when the window is made.
InitialFrame == Rect(200, 100, 500, 300)
NoCommit ==
  [op |-> "none", geometry |-> NoRect, area |-> NoRect, prevent |-> FALSE,
   before |-> NoRect, move |-> FALSE, resize |-> FALSE]

\* Rect.maxX, Rect.maxY
MaxX(r) == r.x + r.width
MaxY(r) == r.y + r.height
\* Rect.includes(other): other lies within this rectangle.
Includes(r, o) ==
  /\ r.x <= o.x /\ r.y <= o.y
  /\ MaxX(o) <= MaxX(r) /\ MaxY(o) <= MaxY(r)

\* adjustGeometry(geometry) for the client cl
AdjustGeometry(cl, geometry) ==
  IF ~cl.resizeable
    THEN Rect(geometry.x, geometry.y, cl.frameGeometry.width,
              cl.frameGeometry.height)
    ELSE Rect(geometry.x, geometry.y,
              Clip(geometry.width, cl.minSize.width, cl.maxSize.width),
              Clip(geometry.height, cl.minSize.height, cl.maxSize.height))

\* The preventProtrusion pass of commit: the geometry moved back by what
\* sticks out on the right and below, then adjusted again.
PreventProtrusion(cl, area, geometry) ==
  IF ~Includes(area, geometry)
    THEN AdjustGeometry(cl,
           Rect(geometry.x + Min(MaxX(area) - MaxX(geometry), 0),
                geometry.y + Min(MaxY(area) - MaxY(geometry), 0),
                geometry.width, geometry.height))
    ELSE geometry

\* commit(geometry) with noBorder and keepAbove undefined: the client's
\* frame geometry after it.  The surface getter always returns an object,
\* so the "no surface" branch is never taken.
CommitFrame(cl, geometry, prevent, area) ==
  IF cl.resize THEN cl.frameGeometry
  ELSE LET g1 == AdjustGeometry(cl, geometry)
           g2 == IF prevent THEN PreventProtrusion(cl, area, g1) ELSE g1
       IN IF cl.frameGeometry # g2
            THEN IF ~cl.move THEN g2
                 ELSE [cl.frameGeometry EXCEPT !.width = g2.width,
                                               !.height = g2.height]
            ELSE cl.frameGeometry

\* The window new DriverWindowImpl(client, ...) makes for a client on
\* desktop 1, screen 0.
CommitWindow ==
  [group |-> 0, screen |-> 0, desktop |-> 1, savedDesktop |-> 1,
   hidden |-> FALSE, activities |-> <<>>]

InitClient ==
  /\ client = [move |-> FALSE, resize |-> FALSE, resizeable |-> TRUE,
               minSize |-> Size(0, 0), maxSize |-> Size(5000, 5000),
               frameGeometry |-> InitialFrame]
  /\ commitCall = NoCommit

\* Any client, already managed, not in an interactive move or resize.
InitAnyClient ==
  /\ client \in [move : {FALSE}, resize : {FALSE}, resizeable : BOOLEAN,
                  minSize : MinSizes, maxSize : MaxSizes,
                  frameGeometry : {InitialFrame}]
  /\ commitCall = NoCommit
  /\ windows = [w \in Windows |-> CommitWindow]
  /\ windowState = [w \in Windows |-> NoWindowState]
  /\ winCall = NoWinCall
  /\ calls = 0

\* The user starts or ends an interactive move or resize of the client.
ClientMoveResize(move, resize) ==
  /\ <<move, resize>> # <<client.move, client.resize>>
  /\ client' = [client EXCEPT !.move = move, !.resize = resize]
  /\ commitCall' = [NoCommit EXCEPT !.op = "moveResize"]
  /\ UNCHANGED <<driverVars, layoutVars, surfaceVars, windowVars, partVars, parseVars, borderVars, desktopVars, addCall, managerVars, signalVars>>

\* window.commit(geometry) with config.preventProtrusion = prevent and the
\* placement area of the client's screen being area.
WindowCommit(w, geometry, prevent, area) ==
  /\ OneCall
  /\ LET h == HiddenSetter(windows[w], windowState[w], FALSE)
     IN /\ windows' = [windows EXCEPT ![w] = h.win]
        /\ windowState' = [windowState EXCEPT ![w] = h.ws]
  /\ client' = [client EXCEPT
                  !.frameGeometry = CommitFrame(client, geometry, prevent, area)]
  /\ commitCall' = [op |-> "commit", geometry |-> geometry, area |-> area,
                    prevent |-> prevent, before |-> client.frameGeometry,
                    move |-> client.move, resize |-> client.resize]
  /\ UNCHANGED <<winCall, driverVars, layoutVars, surfaceVars, partVars, parseVars, borderVars, desktopVars, addCall, managerVars, signalVars>>

NextCommit ==
  \/ \E move \in BOOLEAN, resize \in BOOLEAN : ClientMoveResize(move, resize)
  \/ \E w \in Windows, geometry \in Geometries, prevent \in BOOLEAN, area \in Areas :
       WindowCommit(w, geometry, prevent, area)

\* ---- commit(undefined, noBorder) ----
NoBorderCall ==
  [op |-> "none", noBorder |-> FALSE, resize |-> FALSE, wasManaged |-> FALSE,
   first |-> FALSE, external |-> FALSE]

\* The noBorder block of commit, for noBorder true or false: client.noBorder,
\* noBorderManaged and noBorderOriginal after it.
CommitNoBorderKeepsOriginal(b, noBorder) ==
  [noBorder |-> IF noBorder THEN TRUE
                ELSE IF b.managed THEN b.original ELSE b.noBorder,
   managed |-> noBorder, original |-> b.original]
CommitNoBorder(b, noBorder) ==
  LET original == IF ~b.managed /\ noBorder THEN b.noBorder
                  ELSE IF b.managed /\ ~b.noBorder THEN FALSE
                  ELSE b.original
  IN [noBorder |-> IF noBorder THEN TRUE
                   ELSE IF b.managed THEN original ELSE b.noBorder,
      managed |-> noBorder, original |-> original]

\* The constructor: not border-managed, the client's border backed up.
InitBorder ==
  /\ border = [noBorder |-> FALSE, managed |-> FALSE, original |-> FALSE]
  /\ borderCall = NoBorderCall

InitAnyBorder ==
  /\ border \in {[noBorder |-> b, managed |-> FALSE, original |-> b] : b \in BOOLEAN}
  /\ borderCall = NoBorderCall

\* What a call that touches the border records: client.noBorder as it was
\* when the window was last not border-managed, and whether the border was
\* changed from outside since.
BorderCall(op, noBorder, external) ==
  [op |-> op, noBorder |-> noBorder, resize |-> client.resize,
   wasManaged |-> border.managed,
   first |-> IF border.managed THEN borderCall.first ELSE border.noBorder,
   external |-> border.managed /\ (external \/ borderCall.external)]

\* window.commit(undefined, noBorder): geometry and keepAbove undefined.
WindowCommitBorder(w, noBorder) ==
  /\ OneCall
  /\ LET h == HiddenSetter(windows[w], windowState[w], FALSE)
     IN /\ windows' = [windows EXCEPT ![w] = h.win]
        /\ windowState' = [windowState EXCEPT ![w] = h.ws]
  /\ border' = IF client.resize THEN border ELSE CommitNoBorder(border, noBorder)
  /\ borderCall' = BorderCall("commit", noBorder, FALSE)
  /\ UNCHANGED <<winCall, driverVars, layoutVars, surfaceVars, partVars,
                 commitVars, parseVars, managerVars, signalVars, desktopVars, addCall>>

\* The user or another script sets client.noBorder.
ClientSetNoBorder(noBorder) ==
  /\ noBorder # border.noBorder
  /\ border' = [border EXCEPT !.noBorder = noBorder]
  /\ borderCall' = BorderCall("external", noBorder, TRUE)
  /\ UNCHANGED <<driverVars, layoutVars, surfaceVars, windowVars, partVars,
                 commitVars, parseVars, managerVars, signalVars, desktopVars, addCall>>

NextBorder ==
  \/ \E move \in BOOLEAN, resize \in BOOLEAN : ClientMoveResize(move, resize)
  \/ \E w \in Windows, noBorder \in BOOLEAN : WindowCommitBorder(w, noBorder)
  \/ \E noBorder \in BOOLEAN : ClientSetNoBorder(noBorder)

\* ========================================================================
\* JSON.parse of the persisted window state and layout state
\* ========================================================================
\* The text the proxy returns for a key: a JSON object, the text for a key
\* nothing was stored under, or text that is not JSON.
TextKinds == {"valid", "missing", "corrupt"}
NoParse == [op |-> "none", threw |-> FALSE]

\* JSON.parse(text) throws a SyntaxError.  For a key nothing was stored
\* under the proxy is taken to return the text of an empty object.
ParseThrows(kind) == kind = "corrupt"

InitParse ==
  /\ jsonText = [window |-> "missing", layout |-> "missing"]
  /\ parseCall = NoParse

\* Any persisted texts, with one window already made.
InitAnyText ==
  /\ jsonText \in [window : TextKinds, layout : TextKinds]
  /\ parseCall = NoParse
  /\ windows = [w \in Windows |-> CommitWindow]
  /\ windowState = [w \in Windows |-> NoWindowState]
  /\ winCall = NoWinCall
  /\ calls = 0

\* A read of window.group
ParseGroupGet(w) ==
  /\ OneCall
  /\ IF windows[w].group # 0
       THEN /\ parseCall' = [op |-> "group", threw |-> FALSE]
            /\ UNCHANGED <<windows, windowState>>
       ELSE IF ParseThrows(jsonText.window)
         THEN /\ parseCall' = [op |-> "group", threw |-> TRUE]
              /\ UNCHANGED <<windows, windowState>>
         ELSE LET r == WindowGroupGetter(windows[w], windowState[w])
              IN /\ windows' = [windows EXCEPT ![w] = r.win]
                 /\ parseCall' = [op |-> "group", threw |-> FALSE]
                 /\ UNCHANGED windowState
  /\ UNCHANGED <<jsonText, winCall, driverVars, layoutVars, surfaceVars,
                 partVars, commitVars, borderVars, desktopVars, addCall, managerVars, signalVars>>

\* window.group = groupId: the cache is written before the parse.
ParseGroupSet(w, groupId) ==
  /\ OneCall
  /\ LET r == WindowGroupSetter(windows[w], windowState[w], groupId)
     IN /\ windows' = [windows EXCEPT ![w] = r.win]
        /\ IF ParseThrows(jsonText.window)
             THEN /\ parseCall' = [op |-> "setGroup", threw |-> TRUE]
                  /\ UNCHANGED <<windowState, jsonText>>
             ELSE /\ parseCall' = [op |-> "setGroup", threw |-> FALSE]
                  /\ windowState' = [windowState EXCEPT ![w] = r.ws]
                  /\ jsonText' = [jsonText EXCEPT !.window = "valid"]
  /\ UNCHANGED <<winCall, driverVars, layoutVars, surfaceVars, partVars,
                 commitVars, borderVars, desktopVars, addCall, managerVars, signalVars>>

\* window.desktop = desktop: client.desktop is written before the parse.
ParseDesktopSet(w, desktop) ==
  /\ OneCall
  /\ LET r == DesktopSetter(windows[w], windowState[w], desktop)
     IN /\ windows' = [windows EXCEPT ![w] = r.win]
        /\ IF ParseThrows(jsonText.window)
             THEN /\ parseCall' = [op |-> "setDesktop", threw |-> TRUE]
                  /\ UNCHANGED <<windowState, jsonText>>
             ELSE /\ parseCall' = [op |-> "setDesktop", threw |-> FALSE]
                  /\ windowState' = [windowState EXCEPT ![w] = r.ws]
                  /\ jsonText' = [jsonText EXCEPT !.window = "valid"]
  /\ UNCHANGED <<winCall, driverVars, layoutVars, surfaceVars, partVars,
                 commitVars, borderVars, desktopVars, addCall, managerVars, signalVars>>

\* new LayoutStoreEntry(config, proxy, EntryUid): the parse comes before
\* anything is stored.
ParseEntryNew ==
  /\ store[EntryUid] = NoEntry
  /\ OneCall
  /\ IF ParseThrows(jsonText.layout)
       THEN /\ parseCall' = [op |-> "newEntry", threw |-> TRUE]
            /\ UNCHANGED <<store, created, lastCall>>
       ELSE LET r == NewEntry(EntryUid, created[EntryUid])
            IN /\ store' = [store EXCEPT ![EntryUid] = r.e]
               /\ created' = [created EXCEPT ![EntryUid] = r.c]
               /\ lastCall' = Call("new", EntrySurface, "", NoEntry, FALSE, r.inst)
               /\ parseCall' = [op |-> "newEntry", threw |-> FALSE]
  /\ UNCHANGED <<config, layoutState, prevCall, jsonText, windows, windowState,
                 winCall, driverVars, surfaceVars, partVars, commitVars, borderVars, desktopVars, addCall, managerVars, signalVars>>

NextParse ==
  \/ \E w \in Windows : ParseGroupGet(w)
  \/ \E w \in Windows, g \in SetGroups : ParseGroupSet(w, g)
  \/ \E w \in Windows, d \in ClientDesktops : ParseDesktopSet(w, d)
  \/ ParseEntryNew

\* ========================================================================
\* DriverImpl: bindEvents, manageWindow, bindWindowEvents, drop
\* ========================================================================
Clients == {1, 2}
\* The workspace, as owner of a connection.
Workspace == 0
\* bindEvents connects these workspace signals, in this order.
WorkspaceSignals ==
  <<"currentActivityChanged", "currentDesktopChanged", "numberDesktopsChanged",
    "clientAdded", "clientRemoved", "clientMaximizeSet", "clientMinimized",
    "clientUnminimized">>
\* bindWindowEvents connects these client signals, in this order.
WindowSignals ==
  <<"moveResizedChanged", "frameGeometryChanged", "activeChanged",
    "screenChanged", "activitiesChanged", "desktopChanged", "shadeChanged",
    "clientMaximizedStateChanged">>
\* The client signals whose handler only passes the window on.
PlainWindowSignals ==
  {"activeChanged", "screenChanged", "activitiesChanged", "shadeChanged",
   "clientMaximizedStateChanged"}
\* The workspace signals that carry a client, other than clientAdded.
ClientSignals == {"clientMaximizeSet", "clientMinimized", "clientUnminimized"}
NoDrop == [op |-> "none", attempts |-> 0, raised |-> FALSE]
CtlCall(event, window) == [event |-> event, window |-> window]

\* The pairs connect() pushes for the signals sigs of owner.
Pairs(owner, sigs) == [i \in 1..Len(sigs) |-> [owner |-> owner, signal |-> sigs[i]]]

\* WrapperMap.get(client): the client's window, or null.
MapGet(map, c) == IF c \in map THEN c ELSE Null

\* controller.onWindowAdded(window): the state the window is left in.
OnWindowAdded(ignore) == IF ignore THEN "Unmanaged" ELSE "Tiled"

\* onClientAdded, after controller.onWindowAdded: is the window kept and
\* its events bound.
ClientAddedKeepsAll(state) == TRUE
ClientAddedKeeps(state) == state # "Unmanaged"

\* manageWindow: is the window kept and its events bound.
ManageWindowKeeps(shouldIgnore) == ~shouldIgnore

\* The controller call of the handler of a plain client signal.
HandlerEvent(sig) ==
  CASE sig = "activeChanged" -> "onWindowFocused"
    [] sig = "screenChanged" -> "onWindowScreenChanged"
    [] sig = "activitiesChanged" -> "onWindowChanged"
    [] sig = "shadeChanged" -> "onWindowShadeChanged"
    [] sig = "clientMaximizedStateChanged" -> "onWindowMaximizeChanged"

\* drop(): pair i of conns is disconnected unless its object is gone, in
\* which case disconnect raises.  The indices left connected, the number of
\* disconnects attempted and whether the error left drop().
RECURSIVE DropFrom(_, _, _, _, _)
DropFrom(catch, conns, conn, gone, i) ==
  IF i > Len(conns)
    THEN [connected |-> conn, attempts |-> i - 1, raised |-> FALSE]
  ELSE IF conns[i].owner \in gone
    THEN IF catch THEN DropFrom(catch, conns, conn, gone, i + 1)
         ELSE [connected |-> conn, attempts |-> i, raised |-> TRUE]
  ELSE DropFrom(catch, conns, conn \ {i}, gone, i + 1)
DropUncaught(conns, conn, gone) == DropFrom(FALSE, conns, conn, gone, 1)
DropAll(conns, conn, gone) == DropFrom(TRUE, conns, conn, gone, 1)

InitManager ==
  /\ seen = [c \in Clients |-> "no"]
  /\ destroyed = {}
  /\ windowMap = {}
  /\ bound = {}
  /\ registeredConnections = <<>>
  /\ connected = {}
  /\ ctlCalls = <<>>
  /\ dropCall = NoDrop

\* connect() for each signal of sigs: the pairs are pushed and connected.
Connect(owner, sigs) ==
  /\ registeredConnections' = registeredConnections \o Pairs(owner, sigs)
  /\ connected' = connected \cup
       {Len(registeredConnections) + i : i \in 1..Len(sigs)}

\* Is the handler of signal sig of owner connected.
Hears(owner, sig) ==
  \E i \in connected :
    registeredConnections[i] = [owner |-> owner, signal |-> sig]

\* driver.bindEvents()
BindEvents ==
  /\ registeredConnections = <<>>
  /\ Connect(Workspace, WorkspaceSignals)
  /\ ctlCalls' = <<>>
  /\ dropCall' = NoDrop
  /\ UNCHANGED <<seen, destroyed, windowMap, bound, driverVars, layoutVars,
                 surfaceVars, windowVars, partVars, commitVars, parseVars, borderVars, desktopVars, addCall, signalVars>>

\* manageWindow(client), as manageWindows calls it for a client that was
\* there before the script; shouldIgnore is what the window answers.
ManageWindow(c, shouldIgnore) ==
  /\ seen[c] = "no"
  /\ seen' = [seen EXCEPT ![c] = IF shouldIgnore THEN "ignored" ELSE "kept"]
  /\ IF ManageWindowKeeps(shouldIgnore)
       THEN /\ windowMap' = windowMap \cup {c}
            /\ bound' = bound \cup {c}
            /\ Connect(c, WindowSignals)
       ELSE UNCHANGED <<windowMap, bound, registeredConnections, connected>>
  /\ ctlCalls' = <<>>
  /\ dropCall' = NoDrop
  /\ UNCHANGED <<destroyed, driverVars, layoutVars, surfaceVars, windowVars,
                 partVars, commitVars, parseVars, borderVars, desktopVars, addCall, signalVars>>

\* KWin emits clientAdded(client); busy says a handler is already running.
ClientAdded(c, shouldIgnore, busy) ==
  /\ seen[c] = "no"
  /\ Hears(Workspace, "clientAdded")
  /\ seen' = [seen EXCEPT ![c] = IF shouldIgnore THEN "ignored" ELSE "kept"]
  /\ IF EnterGuard(busy)
       THEN /\ ctlCalls' = <<>>
            /\ UNCHANGED <<windowMap, bound, registeredConnections, connected>>
       ELSE /\ ctlCalls' = <<CtlCall("onWindowAdded", c)>>
            /\ IF ClientAddedKeeps(OnWindowAdded(shouldIgnore))
                 THEN /\ windowMap' = windowMap \cup {c}
                      /\ bound' = bound \cup {c}
                      /\ Connect(c, WindowSignals)
                 ELSE UNCHANGED <<windowMap, bound, registeredConnections,
                                  connected>>
  /\ dropCall' = NoDrop
  /\ UNCHANGED <<destroyed, driverVars, layoutVars, surfaceVars, windowVars,
                 partVars, commitVars, parseVars, borderVars, desktopVars, addCall, signalVars>>

\* KWin emits clientRemoved(client) and deletes the client object.
ClientRemoved(c, busy) ==
  /\ seen[c] # "no" /\ c \notin destroyed
  /\ destroyed' = destroyed \cup {c}
  /\ connected' = {i \in connected : registeredConnections[i].owner # c}
  /\ IF Hears(Workspace, "clientRemoved") /\ ~EnterGuard(busy)
          /\ MapGet(windowMap, c) # Null
       THEN /\ ctlCalls' = <<CtlCall("onWindowRemoved", MapGet(windowMap, c))>>
            /\ windowMap' = windowMap \ {c}
       ELSE /\ ctlCalls' = <<>>
            /\ UNCHANGED windowMap
  /\ dropCall' = NoDrop
  /\ UNCHANGED <<seen, bound, registeredConnections, driverVars, layoutVars,
                 surfaceVars, windowVars, partVars, commitVars, parseVars, borderVars, desktopVars, addCall, signalVars>>

\* KWin emits clientMaximizeSet, clientMinimized or clientUnminimized for a
\* client; preventMinimize is the configuration option.
ClientSignal(c, sig, preventMinimize, busy) ==
  /\ seen[c] # "no" /\ c \notin destroyed
  /\ Hears(Workspace, sig)
  /\ ctlCalls' =
       IF EnterGuard(busy) THEN <<>>
       ELSE IF sig = "clientMaximizeSet"
         THEN IF MapGet(windowMap, c) # Null
                THEN <<CtlCall("onWindowMaximizeChanged", MapGet(windowMap, c))>>
                ELSE <<>>
       ELSE IF sig = "clientMinimized" /\ preventMinimize THEN <<>>
       ELSE <<CtlCall("onWindowChanged", MapGet(windowMap, c))>>
  /\ dropCall' = NoDrop
  /\ UNCHANGED <<seen, destroyed, windowMap, bound, registeredConnections,
                 connected, driverVars, layoutVars, surfaceVars, windowVars,
                 partVars, commitVars, parseVars, borderVars, desktopVars, addCall, signalVars>>

\* A client emits one of its plain signals.
WindowSignal(c, sig, busy) ==
  /\ c \notin destroyed
  /\ Hears(c, sig)
  /\ ctlCalls' = IF EnterGuard(busy) THEN <<>>
                 ELSE <<CtlCall(HandlerEvent(sig), c)>>
  /\ dropCall' = NoDrop
  /\ UNCHANGED <<seen, destroyed, windowMap, bound, registeredConnections,
                 connected, driverVars, layoutVars, surfaceVars, windowVars,
                 partVars, commitVars, parseVars, borderVars, desktopVars, addCall, signalVars>>

\* driver.drop()
DriverDrop ==
  /\ registeredConnections # <<>>
  /\ LET r == DropAll(registeredConnections, connected, destroyed)
     IN /\ connected' = r.connected
        /\ dropCall' = [op |-> "drop", attempts |-> r.attempts,
                        raised |-> r.raised]
  /\ ctlCalls' = <<>>
  /\ UNCHANGED <<seen, destroyed, windowMap, bound, registeredConnections,
                 driverVars, layoutVars, surfaceVars, windowVars, partVars,
                 commitVars, parseVars, borderVars, desktopVars, addCall, signalVars>>

\* ---- clientAdded for a client that was announced before ----
NoAdd == [op |-> "none", client |-> 0, threw |-> FALSE, escaped |-> FALSE]

\* WrapperMap.add(client): does it throw instead of wrapping the client.
MapAddOverwrites(map, c) == FALSE
MapAddThrows(map, c) == c \in map

\* onClientAdded(client): did windowMap.add throw; if not, the map after
\* the handler, its controller calls and whether it bound the window's events.
OnClientAdded(map, c, shouldIgnore) ==
  IF MapAddThrows(map, c)
    THEN [threw |-> TRUE, map |-> map, calls |-> <<>>, binds |-> FALSE]
    ELSE LET keeps == ClientAddedKeeps(OnWindowAdded(shouldIgnore))
         IN [threw |-> FALSE,
             map |-> IF keeps THEN map \cup {c} ELSE map \ {c},
             calls |-> <<CtlCall("onWindowAdded", c)>>,
             binds |-> keeps]

InitAdd == addCall = NoAdd

\* KWin emits clientAdded(client) for a client it has announced before; the
\* window answers shouldIgnore as it did then.
ClientAddedAgain(c, busy) ==
  /\ seen[c] # "no" /\ c \notin destroyed
  /\ Hears(Workspace, "clientAdded")
  /\ IF EnterGuard(busy)
       THEN /\ ctlCalls' = <<>>
            /\ addCall' = [NoAdd EXCEPT !.op = "dropped", !.client = c]
            /\ UNCHANGED <<windowMap, bound, registeredConnections, connected>>
       ELSE LET r == OnClientAdded(windowMap, c, seen[c] = "ignored")
            IN /\ ctlCalls' = r.calls
               /\ windowMap' = r.map
               /\ addCall' = [op |-> "added", client |-> c, threw |-> r.threw,
                              escaped |-> r.threw /\ ~EnterCatches("string")]
               /\ IF r.binds
                    THEN bound' = bound \cup {c} /\ Connect(c, WindowSignals)
                    ELSE UNCHANGED <<bound, registeredConnections, connected>>
  /\ dropCall' = NoDrop
  /\ UNCHANGED <<seen, destroyed, driverVars, layoutVars, surfaceVars, windowVars,
                 partVars, commitVars, parseVars, signalVars, borderVars,
                 desktopVars>>

\* ---- workspace.desktops: the constructor and onNumberDesktopsChanged ----
\* The numbers of desktops the user can set in the host.
HostDesktopCounts == 1..(NumDesktops + 1)
NoDesktopCall ==
  [op |-> "none", reported |-> 0, handled |-> FALSE, reemitted |-> FALSE]

\* The end of the constructor: workspace.desktops after it.
DriverConstructor(desktops) == IF desktops < 2 THEN desktops + 1 ELSE desktops

\* onNumberDesktopsChanged(old): workspace.desktops after the handler's body.
OnNumberDesktopsChangedLogsOnly(desktops) == desktops
OnNumberDesktopsChanged(desktops) ==
  IF desktops < 2 THEN desktops + 1 ELSE desktops

\* KWin emits numberDesktopsChanged with workspace.desktops = desktops, a
\* handler running already (busy) or not, the driver's handler connected
\* (hears) or not. The handler's own increment emits the signal again at
\* once, while enter() has its flag set.
RECURSIVE NumberDesktopsSignal(_, _, _)
NumberDesktopsSignal(busy, hears, desktops) ==
  IF ~hears \/ EnterGuard(busy)
    THEN [desktops |-> desktops, handled |-> FALSE, reemitted |-> FALSE]
    ELSE LET after == OnNumberDesktopsChanged(desktops)
         IN IF after # desktops
              THEN [desktops |-> NumberDesktopsSignal(TRUE, hears, after).desktops,
                    handled |-> TRUE, reemitted |-> TRUE]
              ELSE [desktops |-> desktops, handled |-> TRUE, reemitted |-> FALSE]

\* A driver has been constructed and the workspace has its desktops.
InitWorkspace ==
  /\ workspace = [desktops |-> NumDesktops, driver |-> TRUE]
  /\ desktopCall = NoDesktopCall

\* The host before the script is loaded, with any number of desktops.
InitHost ==
  /\ workspace \in [desktops : HostDesktopCounts, driver : {FALSE}]
  /\ desktopCall = NoDesktopCall

\* new DriverImpl(...): its increment finds no handler connected yet.
DriverNew ==
  /\ ~workspace.driver
  /\ workspace' =
       [desktops |->
          NumberDesktopsSignal(FALSE, Hears(Workspace, "numberDesktopsChanged"),
                               DriverConstructor(workspace.desktops)).desktops,
        driver |-> TRUE]
  /\ desktopCall' = [NoDesktopCall EXCEPT !.op = "new",
                                          !.reported = workspace.desktops]
  /\ UNCHANGED <<driverVars, layoutVars, surfaceVars, windowVars, partVars,
                 commitVars, parseVars, managerVars, signalVars, borderVars, addCall>>

\* The user sets the number of desktops to n; KWin emits numberDesktopsChanged.
HostSetDesktops(n) ==
  /\ n # workspace.desktops
  /\ LET r == NumberDesktopsSignal(FALSE,
                 Hears(Workspace, "numberDesktopsChanged"), n)
     IN /\ workspace' = [workspace EXCEPT !.desktops = r.desktops]
        /\ desktopCall' = [op |-> "changed", reported |-> n,
                           handled |-> r.handled, reemitted |-> r.reemitted]
  /\ UNCHANGED <<driverVars, layoutVars, surfaceVars, windowVars, partVars,
                 commitVars, parseVars, managerVars, signalVars, borderVars, addCall>>

\* The life of a driver from before its construction, with the user changing
\* the number of desktops at any time.
NextDesktops ==
  \/ DriverNew
  \/ workspace.driver /\ BindEvents
  \/ \E n \in HostDesktopCounts : HostSetDesktops(n)
  \/ \E c \in Clients, shouldIgnore \in BOOLEAN, busy \in BOOLEAN :
       ClientAdded(c, shouldIgnore, busy)
  \/ \E c \in Clients, busy \in BOOLEAN : ClientRemoved(c, busy)
  \/ DriverDrop

NextManager ==
  \/ BindEvents
  \/ \E c \in Clients, ign \in BOOLEAN : ManageWindow(c, ign)
  \/ \E c \in Clients, ign \in BOOLEAN, busy \in BOOLEAN : ClientAdded(c, ign, busy)
  \/ \E c \in Clients, busy \in BOOLEAN : ClientRemoved(c, busy)
  \/ \E c \in Clients, sig \in ClientSignals, pm \in BOOLEAN, busy \in BOOLEAN :
       ClientSignal(c, sig, pm, busy)
  \/ \E c \in Clients, sig \in PlainWindowSignals, busy \in BOOLEAN :
       WindowSignal(c, sig, busy)
  \/ DriverDrop

\* The same with clients that KWin announces more than once.
NextDuplicates ==
  \/ NextManager
  \/ \E c \in Clients, busy \in BOOLEAN : ClientAddedAgain(c, busy)

\* ========================================================================
\* bindWindowEvents: moveResizedChanged and frameGeometryChanged
\* ========================================================================
\* The window the handlers were bound for.
BoundWindow == 1
NoMoves == [move |-> "none", resize |-> "none"]
NoSignal == [op |-> "none", dropped |-> FALSE]

\* EngineWindow.actualGeometry: the geometry the driver window reports.
ActualGeometry(cl) == cl.frameGeometry

\* The moveResizedChanged handler: the closure's flags after it and the
\* controller calls it makes.
MoveResizedUntracked(tr, cl) ==
  [tracked |-> [moving |-> cl.move, resizing |-> cl.resize],
   calls |->
     <<CtlCall(IF cl.move THEN "onWindowMoveStart" ELSE "onWindowMoveOver",
               BoundWindow),
       CtlCall(IF cl.resize THEN "onWindowResizeStart" ELSE "onWindowResizeOver",
               BoundWindow)>>]
MoveResizedHandler(tr, cl) ==
  [tracked |-> [moving |-> cl.move, resizing |-> cl.resize],
   calls |->
     (IF tr.moving # cl.move
        THEN <<CtlCall(IF cl.move THEN "onWindowMoveStart"
                       ELSE "onWindowMoveOver", BoundWindow)>>
        ELSE <<>>)
     \o
     (IF tr.resizing # cl.resize
        THEN <<CtlCall(IF cl.resize THEN "onWindowResizeStart"
                       ELSE "onWindowResizeOver", BoundWindow)>>
        ELSE <<>>)]

\* The frameGeometryChanged handler: the controller calls it makes.
FrameGeometryAlways(tr, cl, geometry) ==
  IF tr.moving \/ cl.move THEN <<CtlCall("onWindowMove", BoundWindow)>>
  ELSE IF tr.resizing \/ cl.resize THEN <<CtlCall("onWindowResize", BoundWindow)>>
  ELSE <<CtlCall("onWindowGeometryChanged", BoundWindow)>>
FrameGeometryHandler(tr, cl, geometry) ==
  IF tr.moving \/ cl.move THEN <<CtlCall("onWindowMove", BoundWindow)>>
  ELSE IF tr.resizing \/ cl.resize THEN <<CtlCall("onWindowResize", BoundWindow)>>
  ELSE IF ActualGeometry(cl) # geometry
    THEN <<CtlCall("onWindowGeometryChanged", BoundWindow)>>
  ELSE <<>>

\* The last Start/Over calls once the calls cs have been made.
RECURSIVE Logged(_, _)
Logged(log, cs) ==
  IF cs = <<>> THEN log
  ELSE LET e == Head(cs).event
           l == CASE e = "onWindowMoveStart" -> [log EXCEPT !.move = "start"]
                  [] e = "onWindowMoveOver" -> [log EXCEPT !.move = "over"]
                  [] e = "onWindowResizeStart" -> [log EXCEPT !.resize = "start"]
                  [] e = "onWindowResizeOver" -> [log EXCEPT !.resize = "over"]
                  [] OTHER -> log
       IN Logged(l, Tail(cs))

InitSignals ==
  /\ tracked = [moving |-> FALSE, resizing |-> FALSE]
  /\ desired = InitialFrame
  /\ moveLog = NoMoves
  /\ signalCall = NoSignal

\* KWin changes client.move / client.resize and emits moveResizedChanged;
\* busy says a handler is already running.
MoveResizedChanged(move, resize, busy) ==
  /\ client' = [client EXCEPT !.move = move, !.resize = resize]
  /\ IF EnterGuard(busy)
       THEN /\ ctlCalls' = <<>>
            /\ UNCHANGED <<tracked, moveLog>>
       ELSE LET r == MoveResizedHandler(tracked, client')
            IN /\ tracked' = r.tracked
               /\ ctlCalls' = r.calls
               /\ moveLog' = Logged(moveLog, r.calls)
  /\ signalCall' = [op |-> "moveResizedChanged", dropped |-> EnterGuard(busy)]
  /\ commitCall' = NoCommit
  /\ UNCHANGED <<desired, seen, destroyed, windowMap, bound,
                 registeredConnections, connected, dropCall, driverVars,
                 layoutVars, surfaceVars, windowVars, partVars, parseVars, borderVars, desktopVars, addCall>>

\* The client's frame geometry changes from outside the engine and KWin
\* emits frameGeometryChanged.
FrameGeometryChanged(frame, busy) ==
  /\ frame # client.frameGeometry
  /\ client' = [client EXCEPT !.frameGeometry = frame]
  /\ ctlCalls' = IF EnterGuard(busy) THEN <<>>
                 ELSE FrameGeometryHandler(tracked, client', desired)
  /\ signalCall' = [op |-> "frameGeometryChanged", dropped |-> EnterGuard(busy)]
  /\ commitCall' = NoCommit
  /\ UNCHANGED <<tracked, desired, moveLog, seen, destroyed, windowMap, bound,
                 registeredConnections, connected, dropCall, driverVars,
                 layoutVars, surfaceVars, windowVars, partVars, parseVars, borderVars, desktopVars, addCall>>

\* The engine computes geometry for the window and commits it; if that
\* changes the client's frame geometry KWin emits frameGeometryChanged.
EngineCommit(w, geometry, prevent, area, busy) ==
  /\ desired' = geometry
  /\ LET h == HiddenSetter(windows[w], windowState[w], FALSE)
     IN /\ windows' = [windows EXCEPT ![w] = h.win]
        /\ windowState' = [windowState EXCEPT ![w] = h.ws]
  /\ client' = [client EXCEPT
                  !.frameGeometry = CommitFrame(client, geometry, prevent, area)]
  /\ commitCall' = [op |-> "commit", geometry |-> geometry, area |-> area,
                    prevent |-> prevent, before |-> client.frameGeometry,
                    move |-> client.move, resize |-> client.resize]
  /\ ctlCalls' = IF client'.frameGeometry = client.frameGeometry \/ EnterGuard(busy)
                   THEN <<>>
                 ELSE FrameGeometryHandler(tracked, client', geometry)
  /\ signalCall' = [op |-> "commit",
                    dropped |-> client'.frameGeometry # client.frameGeometry
                                /\ EnterGuard(busy)]
  /\ UNCHANGED <<tracked, moveLog, winCall, calls, seen, destroyed, windowMap,
                 bound, registeredConnections, connected, dropCall, driverVars,
                 layoutVars, surfaceVars, partVars, parseVars, borderVars, desktopVars, addCall>>

NextSignals ==
  \/ \E move \in BOOLEAN, resize \in BOOLEAN, busy \in BOOLEAN :
       MoveResizedChanged(move, resize, busy)
  \/ \E frame \in Geometries, busy \in BOOLEAN : FrameGeometryChanged(frame, busy)
  \/ \E w \in Windows, geometry \in Geometries, prevent \in BOOLEAN,
        busy \in BOOLEAN :
       EngineCommit(w, geometry, prevent, Rect(0, 0, 900, 600), busy)

\* Nothing in the KWin bindings other than the client has been touched.
KWinIdle ==
  InitParse /\ InitManager /\ InitSignals /\ InitBorder /\ InitWorkspace
    /\ InitAdd

\* ========================================================================
\* Specifications
\* ========================================================================
LayoutIdle ==
  /\ config = [layoutOrder |-> FullOrder, layoutPerDesktop |-> FALSE,
               layoutPerActivity |-> FALSE, ignoreScreen |-> {}]
  /\ layoutState = [k \in Keys |-> ""]
  /\ EmptyStore

\* No call has been made on a part or a layout.
PartsIdle == InitStair /\ InitOneTabbed /\ InitClone /\ InitClient /\ KWinIdle

\* The driver's signal dispatch alone.
DriverInit == InitDriver /\ LayoutIdle /\ InitSurface /\ InitWindow /\ PartsIdle
SpecDriver == DriverInit /\ [][NextDriver]_vars

\* One LayoutStoreEntry and its methods.
EntryInit == InitDriver /\ InitEntry /\ InitSurface /\ InitWindow /\ PartsIdle
SpecEntry == EntryInit /\ [][NextEntry]_vars

\* The layout registry and the surfaces it is asked about.
LayoutInit == InitDriver /\ InitLayout /\ InitSurface /\ InitWindow /\ PartsIdle
SpecLayout == LayoutInit /\ [][NextLayout]_vars

\* The surface objects and the persisted groups.
SurfaceInit == InitDriver /\ LayoutIdle /\ InitSurface /\ InitWindow /\ PartsIdle
SpecSurface == SurfaceInit /\ [][NextSurface]_vars

\* One new window, the surfaces made for it and the persisted groups.
GroupInit == InitDriver /\ LayoutIdle /\ InitSurface /\ InitWindow /\ PartsIdle
SpecGroup == GroupInit /\ [][NextGroup]_vars

\* One window, new or restored, and the surfaces it is asked about.
WindowInit == InitDriver /\ LayoutIdle /\ InitSurface /\ InitRestoredWindow /\ PartsIdle
SpecWindow == WindowInit /\ [][NextWindow]_vars

\* A StairLayoutPart: its step and the windows it places.
StairInit ==
  InitDriver /\ LayoutIdle /\ InitSurface /\ InitWindow /\ InitStair /\ InitOneTabbed /\ InitClone /\ InitClient /\ KWinIdle
SpecStair == StairInit /\ [][NextStair]_vars

\* A TabbedMasterLayout and the actions the engine passes to it.
TabbedInit ==
  InitDriver /\ LayoutIdle /\ InitSurface /\ InitWindow /\ InitStair /\ InitTabbed /\ InitClone /\ InitClient /\ KWinIdle
SpecTabbed == TabbedInit /\ [][NextTabbed]_vars

\* Both, for what they do with the actions they get.
ActionsInit ==
  InitDriver /\ LayoutIdle /\ InitSurface /\ InitWindow /\ InitStair /\ InitOneTabbed /\ InitClone /\ InitClient /\ KWinIdle
SpecActions == ActionsInit /\ [][NextActions]_vars

\* A TabbedMasterLayout, restored from any persisted state, and its clone.
CloneInit ==
  InitDriver /\ LayoutIdle /\ InitSurface /\ InitWindow /\ InitStair /\ InitTabbed /\ InitClone /\ InitClient /\ KWinIdle
SpecClone == CloneInit /\ [][NextClone]_vars

\* One managed window and the geometries committed to its client.
CommitInit ==
  InitDriver /\ LayoutIdle /\ InitSurface /\ InitStair /\ InitOneTabbed /\ InitClone /\ InitAnyClient /\ KWinIdle
SpecCommit == CommitInit /\ [][NextCommit]_vars

\* One new window and its hidden flag.
HiddenInit == InitDriver /\ LayoutIdle /\ InitSurface /\ InitWindow /\ PartsIdle
SpecHidden == HiddenInit /\ [][NextHidden]_vars

\* A shown window that is moved between surfaces and committed.
NextShown ==
  \/ \E w \in Windows, srf \in Surfaces : WindowSurfaceSet(w, srf)
  \/ \E w \in Windows, geometry \in Geometries, prevent \in BOOLEAN, area \in Areas :
       WindowCommit(w, geometry, prevent, area)
SpecShown == CommitInit /\ [][NextShown]_vars

\* One managed window whose border the engine takes and gives back.
BorderInit ==
  InitDriver /\ LayoutIdle /\ InitSurface /\ InitStair /\ InitOneTabbed /\ InitClone /\ InitAnyClient
    /\ InitParse /\ InitManager /\ InitSignals /\ InitAnyBorder /\ InitWorkspace
    /\ InitAdd
SpecBorder == BorderInit /\ [][NextBorder]_vars

\* The host, the driver made for it and the user's desktop settings.
DesktopsInit ==
  InitDriver /\ LayoutIdle /\ InitSurface /\ InitWindow /\ InitStair /\ InitOneTabbed
    /\ InitClone /\ InitClient /\ InitParse /\ InitManager /\ InitSignals /\ InitBorder
    /\ InitHost /\ InitAdd
SpecDesktops == DesktopsInit /\ [][NextDesktops]_vars

\* The readers of persisted JSON, over every kind of persisted text.
ParseInit ==
  InitDriver /\ LayoutIdle /\ InitSurface /\ InitStair /\ InitOneTabbed /\ InitClone /\ InitClient /\ InitAnyText /\ InitManager /\ InitSignals /\ InitBorder
    /\ InitWorkspace /\ InitAdd
SpecParse == ParseInit /\ [][NextParse]_vars

\* The driver: its window map, its connections and the signals it hears.
ManagerInit ==
  InitDriver /\ LayoutIdle /\ InitSurface /\ InitWindow /\ PartsIdle
SpecManager == ManagerInit /\ [][NextManager]_vars

\* The driver with clients announced more than once.
SpecDuplicates == ManagerInit /\ [][NextDuplicates]_vars

\* One bound window: its client's signals and the engine's commits.
SignalsInit ==
  InitDriver /\ LayoutIdle /\ InitSurface /\ InitStair /\ InitOneTabbed /\ InitClone /\ InitAnyClient /\ KWinIdle
SpecSignals == SignalsInit /\ [][NextSignals]_vars

\* ========================================================================
\* Properties
\* ========================================================================
Fired == 1..(nextId - 1)
Ran(e) == status[e] \in {"running", "done", "threw"}

\* C1: a notification that fires while a bound handler is still executing is
\* dropped: its handler body is not entered then and never afterwards, and
\* nothing is held back for later (every fired notification is either
\* dropped or has entered its handler at once).
C1_ReentrantSignalDropped ==
  /\ \A e \in Fired : nested[e] => status[e] = "dropped"
  /\ \A e \in Fired : status[e] # "none"
  /\ Len(callStack) <= 1

\* C1 witness: a notification fired inside a running handler, and that
\* handler has since returned.
C1_Witness ==
  \E e \in Fired :
    /\ nested[e]
    /\ status[e] = "dropped"
    /\ e > 1 /\ status[e - 1] = "done"
    /\ callStack = <<>>

\* C2: no exception of a handler reaches the host, the flag is clear whenever
\* no handler is running, and every notification delivered while no handler
\* is running has its handler executed.
C2_ThrowLeavesGuardClear ==
  /\ propagated = 0
  /\ (callStack = <<>> => entered = FALSE)
  /\ \A e \in Fired : ~nested[e] => Ran(e)

\* C2 witness: a handler threw and the next notification ran its handler.
C2_Witness ==
  \E e \in Fired :
    /\ status[e] = "threw"
    /\ e + 1 \in Fired /\ ~nested[e + 1] /\ Ran(e + 1)

TheEntry == store[EntryUid]
Order == config.layoutOrder
\* The surface the last LayoutStore call was made for.
Actor(call) == [screen |-> call.screen, desktop |-> call.desktop, activity |-> "work"]
\* The class id getCurrentLayout would find current for a surface.
CurrentIDOf(srf) ==
  IF Ignore(srf) THEN "FloatingLayout" ELSE GetEntry(EntryKey(srf)).e.currentID

\* C3: on a fresh entry, cycleLayout(+1) then cycleLayout(-1) leaves the
\* current id as it was before the two calls, whether it came from the
\* first configured id or from the persisted layout state.  Stated for the
\* initial ids the configured order lists: cycling only ever selects listed
\* ids, so an unlisted persisted id cannot be cycled back to in any case.
C3_CycleForthAndBack ==
  (/\ prevCall.op = "cycle" /\ prevCall.arg = "+1" /\ prevCall.fresh
   /\ IndexOf(Order, prevCall.before) # -1
   /\ lastCall.op = "cycle" /\ lastCall.arg = "-1")
  => TheEntry.currentID = prevCall.before

\* C4: toggleLayout(X) twice in a row leaves the current id as it was before
\* the first of the two calls.
C4_ToggleTwiceRestores ==
  (/\ prevCall.op = "toggle" /\ lastCall.op = "toggle"
   /\ prevCall.arg = lastCall.arg)
  => TheEntry.currentID = prevCall.before

\* C4 witness: the first toggle switched to another id, the second one back.
C4_Witness ==
  /\ prevCall.op = "toggle" /\ lastCall.op = "toggle"
  /\ prevCall.arg = lastCall.arg
  /\ prevCall.before # prevCall.arg
  /\ prevCall.beforePrev # prevCall.before
  /\ lastCall.before = lastCall.arg
  /\ TheEntry.currentID = prevCall.before

\* C5: when the current id is at position p of the layout order,
\* cycleLayout(step) makes the id at position (p + step) mod length current
\* and records the former current id as previous.
C5_CycleAdvancesFromCurrent ==
  (lastCall.op = "cycle" /\ IndexOf(Order, lastCall.before) # -1)
  => LET p == IndexOf(Order, lastCall.before)
         step == IF lastCall.arg = "+1" THEN 1 ELSE -1
     IN /\ TheEntry.currentID = Order[((p + step + Len(Order)) % Len(Order)) + 1]
        /\ TheEntry.previousID = lastCall.before

\* C6: toggleLayout(id) is a two-slot swap: with id not current, id becomes
\* current and the former current id previous; with id current, the former
\* previous id becomes current and id previous.
C6_ToggleTwoSlot ==
  lastCall.op = "toggle"
  => IF lastCall.before = lastCall.arg
       THEN /\ TheEntry.currentID = lastCall.beforePrev
            /\ TheEntry.previousID = lastCall.arg
       ELSE /\ TheEntry.currentID = lastCall.arg
            /\ TheEntry.previousID = lastCall.before

\* C6 witness: a toggle of the current id went back to a different previous
\* id, which is itself not the id that was current two switches ago.
C6_Witness ==
  /\ lastCall.op = "toggle"
  /\ lastCall.before = lastCall.arg
  /\ lastCall.beforePrev # lastCall.arg
  /\ prevCall.op = "toggle" /\ prevCall.before # prevCall.arg
  /\ prevCall.beforePrev # lastCall.beforePrev
  /\ TheEntry.currentID = lastCall.beforePrev

\* C7: a cycleLayout or toggleLayout for one surface never changes the
\* current layout of a surface with a different tiling-context id.
C7_EntriesKeyedById ==
  [][lastCall'.op \in {"cycle", "toggle"}
       => \A srf \in Surfaces :
            GenerateId(srf) # GenerateId(Actor(lastCall'))
              => CurrentIDOf(srf)' = CurrentIDOf(srf)]_vars

\* C8 as stated: an entry whose current class id is unknown to
\* createLayoutFromId resolves to the FloatingLayout.instance singleton.
C8_UnknownIsSingleton ==
  (lastCall.op = "get" /\ ~Ignore(Actor(lastCall))
     /\ lastCall.before \notin KnownClasses)
  => lastCall.result = FloatingInstance

\* C8 amended: getCurrentLayout on an ignored surface returns
\* FloatingLayout.instance; an entry whose current class id is unknown
\* resolves to a FloatingLayout object of the entry's own, not the singleton;
\* cycleLayout and toggleLayout on an ignored surface return null and leave
\* the registry as it was.
C8_FloatingFallback ==
  /\ [](lastCall.op = "get" /\ Ignore(Actor(lastCall))
          => lastCall.result = FloatingInstance)
  /\ [](lastCall.op = "get" /\ ~Ignore(Actor(lastCall))
          /\ lastCall.before \notin KnownClasses
          => /\ lastCall.result.class = "FloatingLayout"
             /\ lastCall.result.uid = EntryKey(Actor(lastCall))
             /\ lastCall.result # FloatingInstance)
  /\ [](lastCall.op \in {"cycle", "toggle"} /\ Ignore(Actor(lastCall))
          => lastCall.result = NullResult)
  /\ [][lastCall'.op \in {"cycle", "toggle"} /\ Ignore(Actor(lastCall'))
          => store' = store /\ created' = created]_vars

\* C8 witness: an entry exists, its current id is unknown and it has just
\* been read, while the other screen is ignored.
C8_Witness ==
  /\ lastCall.op = "get" /\ ~Ignore(Actor(lastCall))
  /\ lastCall.before = "FloatingLayout"
  /\ lastCall.result.class = "FloatingLayout"
  /\ config.ignoreScreen = {1}

\* C9: an entry constructs at most one layout per class id and its cache
\* keeps that object: a call that selects an id selected before returns the
\* first object made for it.
C9_OneInstancePerId ==
  /\ \A id \in LayoutIDs : created[EntryUid][id] <= 1
  /\ TheEntry # NoEntry
       => \A id \in LayoutIDs : TheEntry.layouts[id] = created[EntryUid][id]
  /\ lastCall.op \in {"get", "cycle", "toggle"}
       => /\ lastCall.result.serial = 1
          /\ lastCall.result.uid = EntryUid
          /\ lastCall.result.id \in LayoutIDs

\* C9 witness: the entry switched away from an id and back to it, and the
\* call that switched back found the id's layout in the cache.
C9_Witness ==
  /\ lastCall.op \in {"cycle", "toggle"} /\ lastCall.cached
  /\ prevCall.op \in {"cycle", "toggle"}
  /\ prevCall.before # lastCall.before
  /\ TheEntry.currentID = prevCall.before
  /\ lastCall.result.id = TheEntry.currentID
  /\ lastCall.result.serial = 1

\* C10: a read of group on a surface that has neither a cached nor a
\* persisted group returns (desktop - 1) * 5 + order[screen], persists it
\* under (desktop, screen) and caches it; a read that follows a read of the
\* same object, with no call in between, returns the same value.
C10_GroupDerived ==
  /\ [](lastRead.op = "get" /\ lastRead.derived
          => /\ lastRead.value =
                  (lastRead.desktop - 1) * 5 + CustomScreenOrder[lastRead.screen + 1]
             /\ surfaceGroup[<<lastRead.desktop, lastRead.screen>>] = lastRead.value
             /\ surfaces[lastRead.slot].group = lastRead.value)
  /\ [][lastRead.op = "get" /\ lastRead'.op = "get"
          /\ lastRead'.slot = lastRead.slot
          => lastRead'.value = lastRead.value]_vars

\* C10 witness: the first read on desktop 2, screen 1 has derived group 6
\* while another pair already has a persisted group.
C10_Witness ==
  /\ lastRead.op = "get" /\ lastRead.derived
  /\ lastRead.desktop = 2 /\ lastRead.screen = 1
  /\ lastRead.value = 6
  /\ surfaceGroup[<<2, 1>>] = 6
  /\ \E p \in Desktops \X Screens : p # <<2, 1>> /\ surfaceGroup[p] # 0

\* The (desktop, screen) pair a surface call was made for.
PairOf(read) == <<read.desktop, read.screen>>

\* C11 as stated: after surface.group = g, for any integer g, g is persisted
\* under the surface's (desktop, screen) and cached, the same object's
\* getter returns g, and an object that has not read its group yet reads the
\* persisted value of its pair instead of deriving one.
C11_SetGroupAnyInteger ==
  /\ [](lastRead.op = "set"
          => /\ surfaceGroup[PairOf(lastRead)] = lastRead.value
             /\ surfaces[lastRead.slot].group = lastRead.value)
  /\ [][lastRead.op = "set" /\ lastRead'.op = "get"
          /\ lastRead'.slot = lastRead.slot
          => lastRead'.value = lastRead.value]_vars
  /\ [][lastRead'.op = "get" /\ surfaces[lastRead'.slot].group = 0
          /\ surfaceGroup[PairOf(lastRead')] # 0
          => lastRead'.value = surfaceGroup[PairOf(lastRead')]]_vars

\* C11 amended: the same for every nonzero integer g; after surface.group = 0
\* the pair counts as having no group and the next read derives one again.
C11_SetGroupPersists ==
  /\ [](lastRead.op = "set"
          => /\ surfaceGroup[PairOf(lastRead)] = lastRead.value
             /\ surfaces[lastRead.slot].group = lastRead.value)
  /\ [][lastRead.op = "set" /\ lastRead.value # 0 /\ lastRead'.op = "get"
          /\ lastRead'.slot = lastRead.slot
          => lastRead'.value = lastRead.value]_vars
  /\ [][lastRead'.op = "get" /\ surfaces[lastRead'.slot].group = 0
          /\ surfaceGroup[PairOf(lastRead')] # 0
          => lastRead'.value = surfaceGroup[PairOf(lastRead')]]_vars
  /\ [][lastRead.op = "set" /\ lastRead.value = 0 /\ lastRead'.op = "get"
          /\ lastRead'.slot = lastRead.slot
          => lastRead'.value = (lastRead.desktop - 1) * 5
                                 + CustomScreenOrder[lastRead.screen + 1]]_vars

\* C11 witness: group 7 was set through the first object of desktop 2,
\* screen 1, and the second object of the pair, made afterwards, has just
\* read 7 and not the derived 6.
C11_Witness ==
  /\ lastRead.op = "get" /\ lastRead.slot = 2 /\ lastRead.value = 7
  /\ lastRead.desktop = 2 /\ lastRead.screen = 1
  /\ surfaces[1] = [desktop |-> 2, screen |-> 1, group |-> 7]
  /\ surfaceGroup[<<2, 1>>] = 7

\* C12: a persisted (nonzero) group of a (desktop, screen) pair changes only
\* in a call of the surface group setter for that pair: no read of group,
\* window.surface = surf or window.on(surf) overwrites it.
C12_PersistedGroupKept ==
  [][\A p \in Desktops \X Screens :
       (surfaceGroup[p] # 0 /\ surfaceGroup'[p] # surfaceGroup[p])
         => /\ winCall'.op = "setGroup"
            /\ \E srf \in Surfaces :
                 winCall'.srfs = <<srf>> /\ <<srf.desktop, srf.screen>> = p]_vars

\* C12 witness: group 7 was set for desktop 1, screen 0 (which derives 4),
\* the window was given that surface and has then been asked about the
\* screens of desktop 1; the persisted group is still 7 and the other
\* screen's derived group has been persisted next to it.
C12_Witness ==
  /\ winCall.op = "onScreens"
  /\ winCall.groups = <<7, 1>>
  /\ windows[1].group = 7 /\ windows[1].screen = 0 /\ windows[1].desktop = 1
  /\ surfaceGroup[<<1, 0>>] = 7
  /\ surfaceGroup[<<1, 1>>] = 1

\* C13: two surfaces that report the same group are the same tiling context:
\* window.on gives the same answer for both, whatever their desktops are.
\* Stated for a window that has a group.
C13_SameGroupSameAnswer ==
  (/\ winCall.op = "onPair"
   /\ windows[winCall.win].group # 0
   /\ winCall.groups[1] = winCall.groups[2])
  => winCall.on[1] = winCall.on[2]

\* C14: among the surfaces of screens(activity, desktop), window.on holds for
\* at most one.  Stated for a window that has a group and for screens that
\* report different groups.
C14_OnAtMostOneScreen ==
  (/\ winCall.op = "onScreens"
   /\ windows[winCall.win].group # 0
   /\ \A i, j \in 1..Len(winCall.groups) :
        i # j => winCall.groups[i] # winCall.groups[j])
  => Cardinality({i \in 1..Len(winCall.on) : winCall.on[i]}) <= 1

\* The last call was executeAction on the part or the layout.
Executed(call, target) == call.op = "execute" /\ call.target = target

\* C15: apply(area, windows) with n windows and step s returns n rectangles
\* in input order, the i-th (from 0) being (x + s(n-1-i), y + s i,
\* width - s(n-1-i), height - s i), and stores it as the i-th window's
\* geometry; n = 3, area (0,0,900,600), s = 24 gives (48,0,852,600),
\* (24,24,876,576), (0,48,900,552).
C15_StairApply ==
  partCall.op = "apply"
  => LET n == partCall.n
         s == partCall.space
         area == partCall.area
     IN /\ Len(partCall.res) = n
        /\ Len(partCall.tiles) = n
        /\ \A i \in 0..(n - 1) :
             /\ partCall.res[i + 1] =
                  Rect(area.x + s * (n - 1 - i), area.y + s * i,
                       area.width - s * (n - 1 - i), area.height - s * i)
             /\ partCall.tiles[i + 1].geometry = partCall.res[i + 1]
        /\ (n = 3 /\ s = 24 /\ area = Rect(0, 0, 900, 600))
             => partCall.res = <<Rect(48, 0, 852, 600), Rect(24, 24, 876, 576),
                                 Rect(0, 48, 900, 552)>>

\* C15 witness: three windows placed in (100,50,800,400) with the step
\* raised to 40.
C15_Witness ==
  /\ partCall.op = "apply" /\ partCall.n = 3 /\ partCall.space = 40
  /\ partCall.area = Rect(100, 50, 800, 400)
  /\ partCall.res = <<Rect(180, 50, 720, 400), Rect(140, 90, 760, 360),
                      Rect(100, 130, 800, 320)>>
  /\ partCall.tiles[3].geometry = Rect(100, 130, 800, 320)

\* C16: the step of a StairLayoutPart is always within [16, 160];
\* IncreaseMasterAreaWindowCount raises it by 8 and
\* DecreaseMasterAreaWindowCount lowers it by 8, except at the bound, where
\* it stays.
C16_StairStepBounded ==
  /\ [](stairSpace \in 16..160)
  /\ [][Executed(partCall', "stair")
           /\ partCall'.kind = "IncreaseMasterAreaWindowCount"
         => stairSpace' = IF stairSpace = 160 THEN 160 ELSE stairSpace + 8]_vars
  /\ [][Executed(partCall', "stair")
           /\ partCall'.kind = "DecreaseMasterAreaWindowCount"
         => stairSpace' = IF stairSpace = 16 THEN 16 ELSE stairSpace - 8]_vars

\* C16 witness: the step is at its upper bound after an increase.
C16_Witness ==
  /\ Executed(partCall, "stair")
  /\ partCall.kind = "IncreaseMasterAreaWindowCount"
  /\ stairSpace = 160

\* C17: numMasterTiles is always within [0, 10] and equal to the split
\* part's primarySize and to the LayoutState's numMasterTiles;
\* IncreaseMasterAreaWindowCount raises it by 1 below 10 and leaves it at
\* 10, DecreaseMasterAreaWindowCount lowers it by 1 above 0 and leaves it
\* at 0.
C17_MasterCountBounded ==
  /\ [](/\ tabbed.primarySize \in 0..10
         /\ tabbed.state.numMasterTiles = tabbed.primarySize)
  /\ [][Executed(partCall', "tabbed")
           /\ partCall'.kind = "IncreaseMasterAreaWindowCount"
         => tabbed'.primarySize =
              IF tabbed.primarySize < 10 THEN tabbed.primarySize + 1 ELSE 10]_vars
  /\ [][Executed(partCall', "tabbed")
           /\ partCall'.kind = "DecreaseMasterAreaWindowCount"
         => tabbed'.primarySize =
              IF tabbed.primarySize > 0 THEN tabbed.primarySize - 1 ELSE 0]_vars

\* C17 witness: the count is at 10 after an increase, in a layout made with
\* a count of 0.
C17_Witness ==
  /\ Executed(partCall, "tabbed")
  /\ partCall.kind = "IncreaseMasterAreaWindowCount"
  /\ tabbed.primarySize = 10 /\ tabbed.state.numMasterTiles = 10
  /\ tabbed.ratio # InitialRatio

C19_MasterRatioClamped ==
  /\ [](tabbed.ratio \in 4..16)
  /\ [][Executed(partCall', "tabbed")
           /\ partCall'.kind = "IncreaseLayoutMasterAreaSize"
         => tabbed'.ratio = IF tabbed.ratio + 1 > 16 THEN 16 ELSE tabbed.ratio + 1]_vars
  /\ [][Executed(partCall', "tabbed")
           /\ partCall'.kind = "DecreaseLayoutMasterAreaSize"
         => tabbed'.ratio = IF tabbed.ratio - 1 < 4 THEN 4 ELSE tabbed.ratio - 1]_vars

\* C19 witness: the ratio is at 0.2 after a decrease.
C19_Witness ==
  /\ Executed(partCall, "tabbed")
  /\ partCall.kind = "DecreaseLayoutMasterAreaSize"
  /\ tabbed.ratio = 4

\* The last call passed an action its receiver does not recognize.
Unrecognized(call) ==
  \/ Executed(call, "stair") /\ call.kind \notin StairKinds
  \/ Executed(call, "tabbed") /\ call.kind \notin TabbedKinds

\* C20: an action the part or the layout does not recognize has its
\* executeWithoutLayoutOverride called exactly once, changes no parameter
\* (ratio, master count, angles, stair step) and triggers no arrange.
C20_UnrecognizedDelegates ==
  /\ [](Unrecognized(partCall)
          => /\ partCall.defaults = 1
             /\ partCall.arranges = 0
             /\ partCall.arranged = NoArrange)
  /\ [][Unrecognized(partCall')
          => tabbed' = tabbed /\ stairSpace' = stairSpace]_vars

\* C20 witness: the part has been passed a Rotate, which it does not know,
\* after its step and the layout's count and ratio had been changed.
C20_Witness ==
  /\ Executed(partCall, "stair") /\ partCall.kind = "Rotate"
  /\ partCall.defaults = 1
  /\ stairSpace = 160
  /\ tabbed.primarySize = 0 /\ tabbed.ratio = 16

\* C21: a new TabbedMasterLayout made for the same uid from the layout's
\* LayoutState has the original's rotation angle, sub-rotation angle,
\* master window count and master ratio.
C21_StateRoundTrip ==
  LET restored == NewTabbed(tabbed.uid, tabbed.state)
  IN /\ restored.angle = tabbed.angle
     /\ restored.partAngle = tabbed.partAngle
     /\ restored.primarySize = tabbed.primarySize
     /\ restored.ratio = tabbed.ratio

\* The parameters a layout instance holds in memory.
InMemory(t) == <<t.ratio, t.primarySize, t.angle, t.partAngle, t.stair>>

\* C22: clone() returns an instance with the original's master ratio and
\* master window count; an action on the clone changes neither the
\* original's parameters nor the state the original would restore, and an
\* action on the original changes neither for the clone.
C22_CloneIndependent ==
  /\ [](partCall.op = "clone"
         => other.ratio = tabbed.ratio /\ other.primarySize = tabbed.primarySize)
  /\ [][Executed(partCall', "other")
         => InMemory(tabbed') = InMemory(tabbed) /\ tabbed'.state = tabbed.state]_vars
  /\ [][Executed(partCall', "tabbed")
         => InMemory(other') = InMemory(other) /\ other'.state = other.state]_vars

\* C23: a commit made while the client is in an interactive move or resize
\* writes no component of the client's frame geometry.
C23_NoWriteWhileMoving ==
  (commitCall.op = "commit" /\ (commitCall.move \/ commitCall.resize))
  => client.frameGeometry = commitCall.before

\* C24: with preventProtrusion on, the frame geometry a commit leaves on the
\* client lies inside the screen's placement area.
C24_InsidePlacementArea ==
  (commitCall.op = "commit" /\ commitCall.prevent
     /\ client.frameGeometry # commitCall.before)
  => Includes(commitCall.area, client.frameGeometry)

\* C31: a commit on a window whose hidden flag is false leaves the client
\* on the desktop it was on.
C31_CommitKeepsDesktop ==
  [][\A w \in Windows :
       ((\E geometry \in Geometries, prevent \in BOOLEAN, area \in Areas :
           WindowCommit(w, geometry, prevent, area))
        /\ ~windows[w].hidden)
       => windows'[w].desktop = windows[w].desktop]_vars

\* C32: the surface objects of one (desktop, screen) pair all report the
\* same group, and it is the group persisted for the pair when there is one.
C32_OneGroupPerPair ==
  \A i \in SurfaceSlots, j \in SurfaceSlots :
    (/\ surfaces[i] # NoSurface /\ surfaces[j] # NoSurface
     /\ surfaces[i].desktop = surfaces[j].desktop
     /\ surfaces[i].screen = surfaces[j].screen)
    => /\ GroupGetter(surfaces[i], surfaceGroup).value
            = GroupGetter(surfaces[j], surfaceGroup).value
       /\ surfaceGroup[<<surfaces[i].desktop, surfaces[i].screen>>] # 0
            => GroupGetter(surfaces[i], surfaceGroup).value
                 = surfaceGroup[<<surfaces[i].desktop, surfaces[i].screen>>]

\* C33 as stated: a commit(noBorder = false) leaves client.noBorder as it
\* was when the window was last not border-managed, the border not having
\* been changed from outside since.
C33_BorderRoundTrip ==
  (borderCall.op = "commit" /\ ~borderCall.noBorder /\ ~borderCall.external)
  => border.noBorder = borderCall.first

\* C33 amended: the same for a commit(noBorder = false) made while the client
\* is not being resized; during an interactive resize the commit returns
\* before the border block and the window stays border-managed.
C33_BorderRoundTripUnlessResizing ==
  /\ (borderCall.op = "commit" /\ ~borderCall.noBorder /\ ~borderCall.external
        /\ ~borderCall.resize)
     => border.noBorder = borderCall.first /\ ~border.managed
  /\ (borderCall.op = "commit" /\ borderCall.resize)
     => border.managed = borderCall.wasManaged

\* C33 witness: a border-managed window whose client had a border has just
\* been given it back by commit(noBorder = false).
C33_Witness ==
  /\ borderCall.op = "commit" /\ ~borderCall.noBorder /\ ~borderCall.resize
  /\ borderCall.wasManaged /\ ~borderCall.external
  /\ ~borderCall.first /\ ~border.noBorder /\ ~border.managed

\* C34: the workspace has at least 2 desktops once the driver has been
\* constructed and once a numberDesktopsChanged notification has been
\* handled, the host never reporting fewer than 1 desktop.
C34_AtLeastTwoDesktops ==
  /\ desktopCall.op = "new" => workspace.desktops >= 2
  /\ (desktopCall.op = "changed" /\ desktopCall.handled)
       => workspace.desktops >= 2

\* C34 witness: the user has set 1 desktop, the handler has added one and
\* the notification of its own increment was dropped by the guard.
C34_Witness ==
  /\ desktopCall.op = "changed" /\ desktopCall.reported = 1
  /\ desktopCall.handled /\ desktopCall.reemitted
  /\ workspace.desktops = 2

\* C35: a clientAdded for a client that is in the window map leaves the map,
\* the bound windows and the connections as they are, calls no controller
\* operation and lets no error out of the handler; a clientRemoved for a
\* client that is not in the map calls no controller operation.
C35_OneWindowPerClient ==
  /\ [][\A c \in Clients :
          (c \in windowMap /\ ClientAddedAgain(c, FALSE))
          => /\ windowMap' = windowMap /\ bound' = bound
             /\ registeredConnections' = registeredConnections
             /\ connected' = connected
             /\ ctlCalls' = <<>>
             /\ ~addCall'.escaped]_vars
  /\ [][\A c \in Clients :
          (c \notin windowMap /\ c \in destroyed' /\ c \notin destroyed)
          => ctlCalls' = <<>>]_vars

\* C35 witness: a second clientAdded for a client in the map has ended in
\* the duplicate-key error, with the client's one set of handlers bound.
C35_Witness ==
  /\ addCall.op = "added" /\ addCall.threw /\ ~addCall.escaped
  /\ addCall.client \in windowMap /\ addCall.client \in bound
  /\ ctlCalls = <<>>
  /\ Cardinality({i \in connected :
                    registeredConnections[i].owner = addCall.client})
       = Len(WindowSignals)

\* C36: after a toggleLayout the entry's index is null if the current id is
\* not in the configured order, and the position of the current id in the
\* order otherwise; the cycleLayout that follows a toggleLayout to an
\* unlisted id, step +1 or -1, selects the first id of the order and records
\* the unlisted id as previous.
C36_UnlistedIndexNull ==
  /\ [](lastCall.op = "toggle"
          => IF IndexOf(Order, TheEntry.currentID) = -1
               THEN TheEntry.currentIndex = Null
               ELSE /\ TheEntry.currentIndex # Null
                    /\ TheEntry.currentIndex = IndexOf(Order, TheEntry.currentID)
                    /\ Order[TheEntry.currentIndex + 1] = TheEntry.currentID)
  /\ [][\A step \in Steps :
          (/\ lastCall.op = "toggle"
           /\ IndexOf(Order, TheEntry.currentID) = -1
           /\ EntryCycleLayout(step))
          => /\ store'[EntryUid].currentID = Order[1]
             /\ store'[EntryUid].currentIndex = 0
             /\ store'[EntryUid].previousID = TheEntry.currentID]_vars

\* C36 witness: a toggle to an id the order does not list was followed by
\* cycleLayout(-1), which selected the first id of a longer order and kept
\* the unlisted id as previous.
C36_Witness ==
  /\ lastCall.op = "cycle" /\ lastCall.arg = "-1"
  /\ prevCall.op = "toggle" /\ prevCall.arg = lastCall.before
  /\ IndexOf(Order, lastCall.before) = -1
  /\ Len(Order) > 1
  /\ TheEntry.currentID = Order[1] /\ TheEntry.currentIndex = 0
  /\ TheEntry.previousID = lastCall.before

\* C30: after hidden = true has been set on a window, once or several times
\* in a row, the client is on the hidden desktop (the last one).
C30_HiddenIdempotent ==
  \A w \in Windows :
    (winCall.op = "hidden" /\ winCall.win = w /\ windows[w].hidden)
    => windows[w].desktop = HiddenDesktop

\* C25: the operations that read the persisted window state or layout state
\* (window group getter, group and desktop setters, LayoutStoreEntry
\* construction) never raise to their caller, whatever the persisted text.
C25_ParseNeverRaises == parseCall.threw = FALSE

\* C26: a client whose shouldIgnore was true when it was added is not in
\* the window map, has no signal handler bound, and is passed to no
\* controller call after the add.
C26_IgnoredNeverManaged ==
  \A c \in Clients :
    seen[c] = "ignored"
    => /\ c \notin windowMap
       /\ c \notin bound
       /\ \A i \in 1..Len(registeredConnections) :
            registeredConnections[i].owner # c
       /\ \A i \in 1..Len(ctlCalls) :
            ctlCalls[i].window = c => ctlCalls[i].event = "onWindowAdded"

\* C26 witness: client 1 was ignored when clientAdded fired for it, client 2
\* is managed, and clientUnminimized for client 1 has reached the controller
\* with no window.
C26_Witness ==
  /\ seen[1] = "ignored" /\ seen[2] = "kept" /\ 2 \in bound
  /\ ctlCalls = <<CtlCall("onWindowChanged", Null)>>

\* C27: drop() attempts to disconnect every registered connection, does not
\* raise, and leaves no connection connected, also when the object of some
\* connection is gone.
C27_DropDisconnectsAll ==
  dropCall.op = "drop"
  => /\ ~dropCall.raised
     /\ dropCall.attempts = Len(registeredConnections)
     /\ connected = {}

\* C27 witness: drop() after client 1, bound before client 2, was removed.
C27_Witness ==
  /\ dropCall.op = "drop" /\ dropCall.attempts = 24
  /\ 1 \in destroyed /\ 1 \in bound /\ 2 \in bound /\ 2 \notin destroyed
  /\ registeredConnections[9].owner = 1 /\ registeredConnections[17].owner = 2
  /\ connected = {}

\* The controller call event is among the calls of the last step.
Called(event) == \E i \in 1..Len(ctlCalls) : ctlCalls[i].event = event

\* C28: onWindowMoveStart and onWindowMoveOver strictly alternate, beginning
\* with MoveStart, and so do onWindowResizeStart and onWindowResizeOver,
\* whatever signals the re-entrancy guard drops.
C28_StartOverAlternate ==
  /\ [][Called("onWindowMoveStart")' => moveLog.move \in {"none", "over"}]_vars
  /\ [][Called("onWindowMoveOver")' => moveLog.move = "start"]_vars
  /\ [][Called("onWindowResizeStart")' => moveLog.resize \in {"none", "over"}]_vars
  /\ [][Called("onWindowResizeOver")' => moveLog.resize = "start"]_vars
  /\ [](~(Called("onWindowMoveStart") /\ Called("onWindowMoveOver")))
  /\ [](~(Called("onWindowResizeStart") /\ Called("onWindowResizeOver")))

\* C28 witness: a MoveOver has been delivered although the client is moving
\* again, because the signal for the second start was dropped.
C28_Witness ==
  /\ moveLog.move = "over" /\ client.move /\ ~tracked.moving
  /\ signalCall = [op |-> "moveResizedChanged", dropped |-> TRUE]

====
